---- MODULE Spec2Model ----
(***************************************************************************)
(* Audio-activity and turn-taking engine of bot-voice-chat:                *)
(*   useVAD             (dictation voice-activity detector)                *)
(*   useSpeechInterrupt (barge-in detector) with its AdaptiveThreshold     *)
(*   useWakeWord        (wake-word listener and response state)            *)
(* Each behaviour drives one component instance (variable unit); the       *)
(* components share no mutable state.                                      *)
(*                                                                         *)
(* Time is in milliseconds.  A handle is -1 (null) or k >= 0, a reference  *)
(* to an object that has been released k times.                            *)
(***************************************************************************)
EXTENDS Integers, Sequences, FiniteSets, TLC

VARIABLES unit, now,
          vad, vadFrames, vadPending, vadObs,
          si, at, siFrames, siPending, siObs, atObs,
          ww, wwProcs, wwPending, wwTimers, wwObs,
          vi, viTimers, viPending, viObs,
          tts, ttsPlaying, ttsPending, ttsObs,
          subs, subsObs,
          chat

vadVars == <<vad, vadFrames, vadPending, vadObs>>
siVars == <<si, at, siFrames, siPending, siObs, atObs>>
wwVars == <<ww, wwProcs, wwPending, wwTimers, wwObs>>
viVars == <<vi, viTimers, viPending, viObs>>
ttsVars == <<tts, ttsPlaying, ttsPending, ttsObs>>
subVars == <<subs, subsObs>>
vars == <<unit, now, vadVars, siVars, wwVars, viVars, ttsVars, subVars, chat>>

---------------------------------------------------------------------------
(* Bounds of the model *)

\* the clock advances in steps of TickMs, MaxTicks times at most
TickMs == 800
\* ... and of WakeTickMs for useWakeWord, whose timer runs for 2000 ms
WakeTickMs == 2000
MaxTicks == 2
\* starts of one detector that are suspended or have a sampling loop scheduled
MaxStarts == 2
(* Program constants *)
VADThreshold == 2             \* 0.02, in hundredths
EndSilenceDuration == 800
MinSpeechDuration == 300

\* analyser frames fed to useVAD: below, and above, the 0.02 threshold
VADFrameData == {<<5, 5>>, <<8, 8>>}

NullH == -1
Min(a, b) == IF a < b THEN a ELSE b
Max(a, b) == IF a > b THEN a ELSE b

RECURSIVE SumSq(_)
SumSq(s) == IF s = <<>> THEN 0 ELSE Head(s) * Head(s) + SumSq(Tail(s))

\* requestAnimationFrame: a handle that is neither scheduled nor held
NewFrameId(used) == CHOOSE i \in 1..(Cardinality(used) + 1) : i \notin used

\* releasing the object behind a handle: the object's release count
Released(h) == h + 1

---------------------------------------------------------------------------
(* useVAD *)

\* sqrt(sum(d*d)/n)/255 in hundredths, rounded up (so that "> threshold"
\* is exact for a threshold given in hundredths)
RECURSIVE VolumeFrom(_, _)
VolumeFrom(r, data) ==
    IF r * r * 65025 * Len(data) >= 10000 * SumSq(data) THEN r
    ELSE VolumeFrom(r + 1, data)

CalculateVolume(data) == VolumeFrom(0, data)

VADInit ==
    [isListening |-> FALSE, isSpeechActive |-> FALSE, currentVolume |-> 0,
     audioContext |-> NullH, analyser |-> FALSE, microphone |-> NullH,
     dataArray |-> FALSE, animationId |-> 0,
     silenceStartTime |-> 0, speechStartTime |-> 0]

VADObsInit ==
    [events |-> <<>>, stopped |-> FALSE, quietSince |-> 0,
     endRun |-> -1, endActive |-> -1, relMax |-> 0, stopsInRow |-> 0,
     openStreams |-> 0, startsOpen |-> 0]

\* start() has got a stream from getUserMedia: one more stream whose tracks
\* run, as an observer counts them
StreamOpened(o) == [o EXCEPT !.openStreams = Min(@ + 1, MaxStarts)]

\* initContext(): creates the context and the analyser once
InitContext(v) ==
    [v EXCEPT !.audioContext = IF v.audioContext = NullH THEN 0 ELSE @,
              !.analyser = TRUE,
              !.dataArray = TRUE]

\* the body of detectionLoop() on one frame, at time t; loop is FALSE when
\* the guard returns before anything is done
DetectionLoop(v, data, t) ==
    IF ~v.analyser \/ ~v.isListening
    THEN [v |-> v, events |-> <<>>, loop |-> FALSE]
    ELSE
      LET volume == CalculateVolume(data)
          v1 == [v EXCEPT !.currentVolume = volume]
      IN  IF volume > VADThreshold
          THEN IF ~v1.isSpeechActive
               THEN [v |-> [v1 EXCEPT !.speechStartTime = t,
                                      !.isSpeechActive = TRUE,
                                      !.silenceStartTime = 0],
                     events |-> <<"onVolumeUpdate", "onSpeechStart">>,
                     loop |-> TRUE]
               ELSE [v |-> v1, events |-> <<"onVolumeUpdate">>, loop |-> TRUE]
          ELSE IF v1.isSpeechActive
               THEN LET sst == IF v1.silenceStartTime = 0 THEN t
                               ELSE v1.silenceStartTime
                        silenceDuration == t - sst
                        speechDuration == IF v1.speechStartTime # 0
                                          THEN t - v1.speechStartTime ELSE 0
                    IN  IF /\ silenceDuration >= EndSilenceDuration
                           /\ speechDuration >= MinSpeechDuration
                        THEN [v |-> [v1 EXCEPT !.isSpeechActive = FALSE,
                                               !.speechStartTime = 0,
                                               !.silenceStartTime = 0],
                              events |-> <<"onVolumeUpdate", "onSpeechEnd">>,
                              loop |-> TRUE]
                        ELSE [v |-> [v1 EXCEPT !.silenceStartTime = sst],
                              events |-> <<"onVolumeUpdate">>, loop |-> TRUE]
               ELSE [v |-> v1, events |-> <<"onVolumeUpdate">>, loop |-> TRUE]

\* what an observer of the frames sees: the onSpeechStart events since the
\* last onSpeechEnd (2 for two or more, -1 once an onSpeechEnd came with no
\* onSpeechStart before it), the start of the unbroken run of
\* sub-threshold frames and, in the step that fires onSpeechEnd, the length
\* of that run and of the activity before it (-1 in every other step)
ObserveFrame(o, v, r, data, t) ==
    LET quiet == CalculateVolume(data) <= VADThreshold
        qs == IF ~r.loop THEN o.quietSince
              ELSE IF ~quiet THEN 0
              ELSE IF o.quietSince = 0 THEN t ELSE o.quietSince
        ended == r.loop /\ r.events # <<>> /\ r.events[Len(r.events)] = "onSpeechEnd"
        started == r.loop /\ r.events # <<>>
                      /\ r.events[Len(r.events)] = "onSpeechStart"
    IN  [o EXCEPT !.events = r.events,
                  !.startsOpen = IF @ = -1 THEN -1
                                 ELSE IF started THEN Min(@ + 1, 2)
                                 ELSE IF ended THEN (IF @ = 0 THEN -1 ELSE 0)
                                 ELSE @,
                  !.quietSince = qs,
                  !.endRun = IF ended THEN Min(t - qs, EndSilenceDuration) ELSE -1,
                  !.endActive = IF ended
                                THEN Min(qs - v.speechStartTime, MinSpeechDuration)
                                ELSE -1,
                  !.stopsInRow = 0]

\* a frame callback scheduled by requestAnimationFrame runs detectionLoop
RunFrame(id, data) ==
    /\ id \in vadFrames
    /\ LET r == DetectionLoop(vad, data, now)
           nid == NewFrameId((vadFrames \ {id}) \cup {vad.animationId})
       IN  /\ vad' = IF r.loop THEN [r.v EXCEPT !.animationId = nid] ELSE r.v
           /\ vadFrames' = IF r.loop THEN (vadFrames \ {id}) \cup {nid}
                           ELSE vadFrames \ {id}
           /\ vadObs' = ObserveFrame(vadObs, vad, r, data, now)

VADFrame(id, data) ==
    /\ RunFrame(id, data)
    /\ UNCHANGED <<unit, now, vadPending, siVars, wwVars, viVars, ttsVars, subVars, chat>>

\* start(): the part after the stream is at hand
VADStartTail(v) ==
    [v EXCEPT !.microphone = 0,
              !.isListening = TRUE,
              !.isSpeechActive = FALSE,
              !.currentVolume = 0,
              !.silenceStartTime = 0,
              !.speechStartTime = 0]

\* ... which ends with a first, synchronous detectionLoop()
VADRunStart(v0, o, data) ==
    LET v == VADStartTail(v0)
        r == DetectionLoop(v, data, now)
        nid == NewFrameId(vadFrames \cup {v.animationId})
    IN  /\ vad' = IF r.loop THEN [r.v EXCEPT !.animationId = nid] ELSE r.v
        /\ vadFrames' = IF r.loop THEN vadFrames \cup {nid} ELSE vadFrames
        /\ vadObs' = ObserveFrame([o EXCEPT !.quietSince = 0], v, r, data, now)

\* start(stream) with a stream: runs to its end without suspending
VADStartWithStream(data) ==
    /\ Cardinality(vadFrames) + vadPending < MaxStarts
    /\ VADRunStart(InitContext(vad), [vadObs EXCEPT !.stopped = FALSE], data)
    /\ UNCHANGED <<unit, now, vadPending, siVars, wwVars, viVars, ttsVars, subVars, chat>>

\* start() without a stream: initContext(), then await getUserMedia
VADStartBegin ==
    /\ Cardinality(vadFrames) + vadPending < MaxStarts
    /\ vad' = InitContext(vad)
    /\ vadPending' = vadPending + 1
    /\ vadObs' = [vadObs EXCEPT !.stopped = FALSE, !.events = <<>>,
                                !.endRun = -1, !.endActive = -1,
                                !.stopsInRow = 0]
    /\ UNCHANGED <<unit, now, vadFrames, siVars, wwVars, viVars, ttsVars, subVars, chat>>

\* getUserMedia resolves: the suspended start() goes on
VADStartResolve(data) ==
    /\ vadPending > 0
    /\ vadPending' = vadPending - 1
    /\ VADRunStart(vad, StreamOpened(vadObs), data)
    /\ UNCHANGED <<unit, now, siVars, wwVars, viVars, ttsVars, subVars, chat>>

\* getUserMedia rejects: start() logs and rethrows
VADStartReject ==
    /\ vadPending > 0
    /\ vadPending' = vadPending - 1
    /\ vadObs' = [vadObs EXCEPT !.events = <<>>, !.endRun = -1,
                                !.endActive = -1, !.stopsInRow = 0]
    /\ UNCHANGED <<unit, now, vad, vadFrames, siVars, wwVars, viVars, ttsVars, subVars, chat>>

\* stop(), and a stop() that would disconnect the microphone and keep holding it
VADStopKeepingMicrophone(v) ==
    [v EXCEPT !.isListening = FALSE,
              !.isSpeechActive = FALSE,
              !.currentVolume = 0,
              !.animationId = 0,
              !.microphone = IF @ = NullH THEN @ ELSE Released(@),
              !.silenceStartTime = 0,
              !.speechStartTime = 0]

VADStopState(v) ==
    [v EXCEPT !.isListening = FALSE,
              !.isSpeechActive = FALSE,
              !.currentVolume = 0,
              !.animationId = 0,
              !.microphone = NullH,
              !.silenceStartTime = 0,
              !.speechStartTime = 0]

VADStopCall ==
    /\ vad' = VADStopState(vad)
    /\ vadFrames' = IF vad.animationId # 0 THEN vadFrames \ {vad.animationId}
                    ELSE vadFrames
    /\ vadObs' = [vadObs EXCEPT
                    !.stopped = TRUE,
                    !.events = <<>>,
                    !.endRun = -1,
                    !.endActive = -1,
                    !.stopsInRow = Min(@ + 1, 2),
                    !.relMax = IF vad.microphone # NullH
                               THEN Max(@, Released(vad.microphone)) ELSE @]

VADStop ==
    /\ VADStopCall
    /\ UNCHANGED <<unit, now, vadPending, siVars, wwVars, viVars, ttsVars, subVars, chat>>

vadNext ==
    \/ \E id \in vadFrames, data \in VADFrameData : VADFrame(id, data)
    \/ \E data \in VADFrameData : VADStartWithStream(data)
    \/ VADStartBegin
    \/ \E data \in VADFrameData : VADStartResolve(data)
    \/ VADStartReject
    \/ VADStop

---------------------------------------------------------------------------
(* AdaptiveThreshold.  Levels are in whole dB; a quotient or a square root
   is rounded down, and 2.5 is 25 tenths. *)

ThresholdOffsetDefault == 15
StdMultiplierTenths == 25
CalibrationIntervalDefault == 30000
NoiseSampleSizeDefault == 50
MinThresholdDefault == -60
MaxThresholdDefault == -20
MinCalibrationSamples == 10

RECURSIVE Sum(_)
Sum(s) == IF s = <<>> THEN 0 ELSE Head(s) + Sum(Tail(s))

RECURSIVE SumSqDiff(_, _)
SumSqDiff(s, m) ==
    IF s = <<>> THEN 0
    ELSE (Head(s) - m) * (Head(s) - m) + SumSqDiff(Tail(s), m)

\* Math.sqrt, rounded down: the root of n lies in lo..hi
RECURSIVE SqrtIn(_, _, _)
SqrtIn(n, lo, hi) ==
    IF lo >= hi THEN lo
    ELSE LET mid == (lo + hi + 1) \div 2
         IN  IF mid * mid <= n THEN SqrtIn(n, mid, hi) ELSE SqrtIn(n, lo, mid - 1)

Sqrt(n) == SqrtIn(n, 0, Min(n, 46340))

\* a missing option (0 stands for undefined) takes the default: opt || def
OrDefault(opt, def) == IF opt = 0 THEN def ELSE opt

\* new AdaptiveThreshold(options), at time t
ATNew(options, t) ==
    [thresholdOffset |-> OrDefault(options.thresholdOffset, ThresholdOffsetDefault),
     stdMultiplier |-> OrDefault(options.stdMultiplier, StdMultiplierTenths),
     calibrationInterval |->
         OrDefault(options.calibrationInterval, CalibrationIntervalDefault),
     noiseSampleSize |-> OrDefault(options.noiseSampleSize, NoiseSampleSizeDefault),
     minThreshold |-> OrDefault(options.minThreshold, MinThresholdDefault),
     maxThreshold |-> OrDefault(options.maxThreshold, MaxThresholdDefault),
     noiseFloor |-> -60,
     threshold |-> -45,
     noiseSamples |-> <<>>,
     lastCalibration |-> t,
     isCalibrated |-> FALSE,
     stats |-> [mean |-> -60, std |-> 5, samples |-> 0]]

calculateMean(data) ==
    IF Len(data) = 0 THEN -60 ELSE Sum(data) \div Len(data)

\* a deviation that would be the variance, its root not taken
calculateVariance(data, mean) ==
    IF Len(data) < 2 THEN 5
    ELSE SumSqDiff(data, mean) \div Len(data)

calculateStd(data, mean) ==
    IF Len(data) < 2 THEN 5
    ELSE Sqrt(SumSqDiff(data, mean) \div Len(data))

\* calibrate(samples = null); NoSamples stands for the null default
NoSamples == "null"

\* a calibrate() that would accept any non-empty sample set
ATCalibrateAnySamples(a, samples, t) ==
    LET data == IF samples = NoSamples THEN a.noiseSamples ELSE samples
    IN  IF Len(data) < 1 THEN a
        ELSE LET mean == calculateMean(data)
                 std == calculateStd(data, mean)
                 raw == mean + (a.stdMultiplier * std) \div 10 + a.thresholdOffset
                 newThreshold == Max(a.minThreshold, Min(a.maxThreshold, raw))
             IN  [a EXCEPT !.stats = [mean |-> mean, std |-> std,
                                      samples |-> Len(data)],
                           !.threshold = newThreshold,
                           !.noiseFloor = mean,
                           !.lastCalibration = t,
                           !.isCalibrated = TRUE,
                           !.noiseSamples = <<>>]

ATCalibrate(a, samples, t) ==
    LET data == IF samples = NoSamples THEN a.noiseSamples ELSE samples
    IN  IF Len(data) < MinCalibrationSamples THEN a
        ELSE LET mean == calculateMean(data)
                 std == calculateStd(data, mean)
                 raw == mean + (a.stdMultiplier * std) \div 10 + a.thresholdOffset
                 newThreshold == Max(a.minThreshold, Min(a.maxThreshold, raw))
             IN  [a EXCEPT !.stats = [mean |-> mean, std |-> std,
                                      samples |-> Len(data)],
                           !.threshold = newThreshold,
                           !.noiseFloor = mean,
                           !.lastCalibration = t,
                           !.isCalibrated = TRUE,
                           !.noiseSamples = <<>>]

\* a push that would never drop a sample
ATPushUnbounded(a, db) == [a EXCEPT !.noiseSamples = Append(@, db)]

\* addNoiseSample(db): the push into the bounded buffer ...
ATPush(a, db) ==
    LET pushed == Append(a.noiseSamples, db)
        kept == IF Len(pushed) > a.noiseSampleSize * 2 THEN Tail(pushed) ELSE pushed
    IN  [a EXCEPT !.noiseSamples = kept]

\* ... and whether a calibration is due after it
CalibrationDue(a, t) == t - a.lastCalibration > a.calibrationInterval

ATAddNoiseSample(a, db, t) ==
    LET a1 == ATPush(a, db)
    IN  IF CalibrationDue(a1, t) THEN ATCalibrate(a1, NoSamples, t) ELSE a1

\* what an observer of calibrate() holds: whether the last step was a call
\* of it and the object as the call found it
ATObsInit == [called |-> FALSE, pre |-> <<>>, dropped |-> FALSE]

ATReset(a) ==
    [a EXCEPT !.noiseSamples = <<>>,
              !.threshold = -45,
              !.noiseFloor = -60,
              !.isCalibrated = FALSE,
              !.stats = [mean |-> -60, std |-> 5, samples |-> 0]]

---------------------------------------------------------------------------
(* AudioAnalyzer and useSpeechInterrupt.  rms and zcr are in thousandths,
   rounded down; a level in dB is rounded up to the next multiple of 10, so
   that "db > threshold" is exact for the thresholds -50, -40, ... *)

LegacyThresholdDefault == -50
EnergyThreshold == 20          \* 0.02
ZcrThreshold == 100            \* 0.1
ZcrCeiling == 500              \* 0.5
SpeechEndSilence == 500

\* analyser frames fed to useSpeechInterrupt: silence, and a loud frame
SIFrameData == {<<0, 0, 0>>, <<200, 90, 200>>}
\* the speechConfirmCount option of the instance
ConfirmCounts == {2, 3}

RECURSIVE Pow10(_)
Pow10(m) == IF m = 0 THEN 1 ELSE 10 * Pow10(m - 1)

\* the number that 0 / 0 yields: it is no average and no level, it equals
\* itself here only, and every comparison with it is false
NaN == 99999
Greater(x, y) == x # NaN /\ y # NaN /\ x > y

\* calculateAverage, in hundredths: sum / dataArray.length
calculateAverage(dataArray) ==
    IF Len(dataArray) = 0 THEN NaN
    ELSE (100 * Sum(dataArray)) \div Len(dataArray)

calculateRMS(dataArray) ==
    IF Len(dataArray) = 0 THEN NaN
    ELSE (1000 * Sqrt((10000 * SumSq(dataArray)) \div Len(dataArray))) \div 25500

RECURSIVE Crossings(_)
Crossings(s) ==
    IF Len(s) < 2 THEN 0
    ELSE (IF (s[2] >= 128 /\ s[1] < 128) \/ (s[2] < 128 /\ s[1] >= 128)
          THEN 1 ELSE 0) + Crossings(Tail(s))

calculateZeroCrossingRate(dataArray) ==
    IF Len(dataArray) < 2 THEN 0
    ELSE (1000 * Crossings(dataArray)) \div (Len(dataArray) - 1)

\* toDecibel(value), value in hundredths: 20*log10(value/255) rounded up to
\* a multiple of 10, i.e. -10*m for the greatest m with (value/255)^2 <= 10^-m
RECURSIVE DecadesBelow(_, _)
DecadesBelow(value, m) ==
    IF m < 8 /\ value * value <= 650250000 \div Pow10(m + 1)
    THEN DecadesBelow(value, m + 1) ELSE m

toDecibel(value) ==
    IF value = NaN THEN NaN
    ELSE IF value <= 0 THEN -100 ELSE -10 * DecadesBelow(value, 0)

\* the composable's state right after useSpeechInterrupt(options); the
\* instance keeps an AdaptiveThreshold iff enableAdaptive
SIInit(enableAdaptive, enableMultiLevel, speechConfirmCount) ==
    [enableAdaptive |-> enableAdaptive,
     enableMultiLevel |-> ~enableMultiLevel,
     speechConfirmCount |-> speechConfirmCount,
     isListening |-> FALSE, speechDetected |-> FALSE, error |-> FALSE,
     currentThreshold |-> LegacyThresholdDefault,
     audioContext |-> NullH, analyser |-> FALSE, microphoneStream |-> NullH,
     dataArray |-> FALSE, animationFrame |-> 0, checkTimer |-> 0,
     speechConfirmCounter |-> 0, lastSpeechTime |-> 0, isSpeechActive |-> FALSE]

\* detectSpeech, adaptive branch: the confirmation step
ConfirmAdaptive(s, isSpeech, t) ==
    IF isSpeech
    THEN LET c == s.speechConfirmCounter + 1
         IN  IF c >= s.speechConfirmCount
             THEN IF ~s.isSpeechActive
                  THEN [s |-> [s EXCEPT !.isSpeechActive = TRUE,
                                        !.lastSpeechTime = t,
                                        !.speechDetected = TRUE,
                                        !.speechConfirmCounter = s.speechConfirmCount],
                        events |-> <<"onSpeechDetected">>]
                  ELSE [s |-> [s EXCEPT !.speechConfirmCounter = s.speechConfirmCount],
                        events |-> <<>>]
             ELSE [s |-> [s EXCEPT !.speechConfirmCounter = c], events |-> <<>>]
    ELSE LET c == Max(0, s.speechConfirmCounter - 1)
         IN  IF s.isSpeechActive /\ t - s.lastSpeechTime > SpeechEndSilence
             THEN [s |-> [s EXCEPT !.isSpeechActive = FALSE,
                                   !.speechConfirmCounter = 0],
                   events |-> <<>>]
             ELSE [s |-> [s EXCEPT !.speechConfirmCounter = c], events |-> <<>>]

\* a legacy step that would count on without a ceiling
ConfirmLegacyUnclamped(s, isSpeech) ==
    IF isSpeech
    THEN LET c == s.speechConfirmCounter + 1
         IN  IF c >= s.speechConfirmCount /\ ~s.isSpeechActive
             THEN [s |-> [s EXCEPT !.isSpeechActive = TRUE,
                                   !.speechDetected = TRUE,
                                   !.speechConfirmCounter = c],
                   events |-> <<"onSpeechDetected">>]
             ELSE [s |-> [s EXCEPT !.speechConfirmCounter = c], events |-> <<>>]
    ELSE LET c == Max(0, s.speechConfirmCounter - 1)
         IN  IF s.isSpeechActive /\ c = 0
             THEN [s |-> [s EXCEPT !.isSpeechActive = FALSE,
                                   !.speechConfirmCounter = c],
                   events |-> <<>>]
             ELSE [s |-> [s EXCEPT !.speechConfirmCounter = c], events |-> <<>>]

\* a legacy step that would fire on every confirmed frame, active or not
ConfirmLegacyEveryFrame(s, isSpeech) ==
    IF isSpeech
    THEN LET c == s.speechConfirmCounter + 1
         IN  IF c >= s.speechConfirmCount
             THEN [s |-> [s EXCEPT !.isSpeechActive = TRUE,
                                   !.speechDetected = TRUE,
                                   !.speechConfirmCounter = s.speechConfirmCount],
                   events |-> <<"onSpeechDetected">>]
             ELSE [s |-> [s EXCEPT !.speechConfirmCounter = c], events |-> <<>>]
    ELSE LET c == Max(0, s.speechConfirmCounter - 1)
         IN  IF s.isSpeechActive /\ c = 0
             THEN [s |-> [s EXCEPT !.isSpeechActive = FALSE,
                                   !.speechConfirmCounter = c],
                   events |-> <<>>]
             ELSE [s |-> [s EXCEPT !.speechConfirmCounter = c], events |-> <<>>]

\* detectSpeech, legacy branch: the confirmation step
ConfirmLegacy(s, isSpeech) ==
    IF isSpeech
    THEN LET c == s.speechConfirmCounter + 1
         IN  IF c >= s.speechConfirmCount
             THEN IF ~s.isSpeechActive
                  THEN [s |-> [s EXCEPT !.isSpeechActive = TRUE,
                                        !.speechDetected = TRUE,
                                        !.speechConfirmCounter = s.speechConfirmCount],
                        events |-> <<"onSpeechDetected">>]
                  ELSE [s |-> [s EXCEPT !.speechConfirmCounter = s.speechConfirmCount],
                        events |-> <<>>]
             ELSE [s |-> [s EXCEPT !.speechConfirmCounter = c], events |-> <<>>]
    ELSE LET c == Max(0, s.speechConfirmCounter - 1)
         IN  IF s.isSpeechActive /\ c = 0
             THEN [s |-> [s EXCEPT !.isSpeechActive = FALSE,
                                   !.speechConfirmCounter = c],
                   events |-> <<>>]
             ELSE [s |-> [s EXCEPT !.speechConfirmCounter = c], events |-> <<>>]

\* the body of detectSpeech() on one frame, at time t
DetectSpeech(s, a, dataArray, t) ==
    IF ~s.isListening
    THEN [s |-> s, a |-> a, events |-> <<>>, loop |-> FALSE, isSpeech |-> FALSE,
          db |-> 0]
    ELSE
      LET average == calculateAverage(dataArray)
          db == toDecibel(average)
          rms == calculateRMS(dataArray)
          zcr == calculateZeroCrossingRate(dataArray)
      IN  IF s.enableAdaptive /\ a.isCalibrated
          THEN LET s1 == [s EXCEPT !.currentThreshold = a.threshold]
                   a1 == IF ~s1.isSpeechActive /\ Greater(EnergyThreshold, rms)
                         THEN ATAddNoiseSample(a, db, t) ELSE a
                   isSpeech ==
                       IF s1.enableMultiLevel
                       THEN /\ Greater(rms, EnergyThreshold)
                            /\ zcr > ZcrThreshold /\ zcr < ZcrCeiling
                            /\ Greater(db, s1.currentThreshold)
                       ELSE Greater(db, s1.currentThreshold)
                   r == ConfirmAdaptive(s1, isSpeech, t)
               IN  [s |-> r.s, a |-> a1, events |-> r.events, loop |-> TRUE,
                    isSpeech |-> isSpeech, db |-> db]
          ELSE LET s1 == [s EXCEPT !.currentThreshold = LegacyThresholdDefault]
                   isSpeech == Greater(db, LegacyThresholdDefault)
                   r == ConfirmLegacy(s1, isSpeech)
               IN  [s |-> r.s, a |-> a, events |-> r.events, loop |-> TRUE,
                    isSpeech |-> isSpeech, db |-> db]

\* stopListening()
StopListening(s) ==
    [s EXCEPT !.isListening = FALSE,
              !.speechDetected = FALSE,
              !.animationFrame = 0,
              !.checkTimer = 0,
              !.audioContext = NullH,
              !.microphoneStream = NullH,
              !.analyser = FALSE,
              !.dataArray = FALSE]

\* a calibrationTimer() that would return
CalibrationTimerReturns(s) == FALSE
\* calibrationTimer() calls itself without end when its guard lets it in:
\* the call stack overflows and a RangeError is thrown
CalibrationTimerThrows(s) == s.isListening /\ s.enableAdaptive

\* the options useSpeechInterrupt hands to its AdaptiveThreshold
SIAdaptiveOptions ==
    [thresholdOffset |-> ThresholdOffsetDefault, stdMultiplier |-> StdMultiplierTenths,
     calibrationInterval |-> CalibrationIntervalDefault, noiseSampleSize |-> 0,
     minThreshold |-> 0, maxThreshold |-> 0]

SIObsInit ==
    [events |-> <<>>, framed |-> FALSE, stopped |-> FALSE, stopsInRow |-> 0,
     relMax |-> 0, speechRun |-> 0, zeroSince |-> 0, deactZeroFor |-> -1,
     edge |-> FALSE, multiLevelOption |-> FALSE]

\* the longest run of speech-like frames an observer counts
RunCap == 3

\* what an observer of one detectSpeech() call sees: s is the state the
\* call starts from, r its result
ObserveSI(o, s, r, t) ==
    IF ~r.loop
    THEN [o EXCEPT !.events = <<>>, !.framed = TRUE, !.stopsInRow = 0,
                   !.deactZeroFor = -1, !.edge = FALSE]
    ELSE LET zs == IF r.s.speechConfirmCounter # 0 THEN 0
                   ELSE IF o.zeroSince = 0 THEN t ELSE o.zeroSince
         IN  [o EXCEPT !.events = r.events,
                       !.framed = TRUE,
                       !.stopsInRow = 0,
                       !.speechRun = IF r.isSpeech THEN Min(@ + 1, RunCap) ELSE 0,
                       !.zeroSince = zs,
                       !.deactZeroFor = IF s.isSpeechActive /\ ~r.s.isSpeechActive
                                        THEN Min(t - zs, SpeechEndSilence) ELSE -1,
                       !.edge = ~s.isSpeechActive /\ r.s.isSpeechActive]

\* the objects stopListening() releases, as an observer counts them
ObserveRelease(o, s) ==
    [o EXCEPT !.relMax =
        Max(@, Max(IF s.audioContext # NullH THEN Released(s.audioContext) ELSE 0,
                   IF s.microphoneStream # NullH THEN Released(s.microphoneStream)
                   ELSE 0))]

\* a frame callback scheduled by requestAnimationFrame runs detectSpeech
SIFrame(id, data) ==
    /\ id \in siFrames
    /\ LET r == DetectSpeech(si, at, data, now)
           nid == NewFrameId((siFrames \ {id}) \cup {si.animationFrame})
       IN  /\ si' = IF r.loop THEN [r.s EXCEPT !.animationFrame = nid] ELSE r.s
           /\ at' = r.a
           /\ siFrames' = IF r.loop THEN (siFrames \ {id}) \cup {nid}
                          ELSE siFrames \ {id}
           /\ siObs' = ObserveSI(siObs, si, r, now)
    /\ atObs' = ATObsInit
    /\ UNCHANGED <<unit, now, siPending, vadVars, wwVars, viVars, ttsVars, subVars, chat>>

\* startListening() up to its await of getUserMedia
SIStartListening ==
    /\ Cardinality(siFrames) + siPending < MaxStarts
    /\ siPending' = IF si.isListening THEN siPending ELSE siPending + 1
    /\ siObs' = [siObs EXCEPT !.events = <<>>, !.framed = FALSE, !.stopped = FALSE,
                              !.stopsInRow = 0, !.deactZeroFor = -1, !.edge = FALSE]
    /\ atObs' = ATObsInit
    /\ UNCHANGED <<unit, now, si, at, siFrames, vadVars, wwVars, viVars, ttsVars, subVars, chat>>

\* startListening(): the state it sets once the audio graph is built
SIStarted(s) ==
    [s EXCEPT !.microphoneStream = 0,
              !.audioContext = 0,
              !.analyser = TRUE,
              !.dataArray = TRUE,
              !.isListening = TRUE,
              !.speechDetected = FALSE,
              !.error = FALSE,
              !.speechConfirmCounter = 0,
              !.isSpeechActive = FALSE]

\* getUserMedia resolves: the suspended startListening() goes on, runs a
\* first detectSpeech() and, with an AdaptiveThreshold, calibrationTimer();
\* what that throws is caught: error is set and stopListening() runs
SIStartResolve(data) ==
    /\ siPending > 0
    /\ siPending' = siPending - 1
    /\ LET s0 == SIStarted(si)
           a0 == IF s0.enableAdaptive THEN ATReset(at) ELSE at
           r == DetectSpeech(s0, a0, data, now)
           nid == NewFrameId(siFrames \cup {s0.animationFrame})
           s1 == [r.s EXCEPT !.animationFrame = nid]
           o1 == ObserveSI([siObs EXCEPT !.speechRun = 0, !.zeroSince = now],
                           s0, r, now)
       IN  IF CalibrationTimerThrows(s1)
           THEN /\ si' = StopListening([s1 EXCEPT !.error = TRUE])
                /\ siFrames' = siFrames
                /\ siObs' = ObserveRelease(o1, s1)
                /\ at' = r.a
           ELSE /\ si' = s1
                /\ siFrames' = siFrames \cup {nid}
                /\ siObs' = o1
                /\ at' = r.a
    /\ atObs' = ATObsInit
    /\ UNCHANGED <<unit, now, vadVars, wwVars, viVars, ttsVars, subVars, chat>>

\* getUserMedia rejects: error is set and stopListening() runs
SIStartReject ==
    /\ siPending > 0
    /\ siPending' = siPending - 1
    /\ si' = StopListening([si EXCEPT !.error = TRUE])
    /\ siFrames' = siFrames \ {si.animationFrame}
    /\ siObs' = ObserveRelease([siObs EXCEPT !.events = <<>>, !.framed = FALSE,
                                             !.stopsInRow = 0, !.deactZeroFor = -1,
                                             !.edge = FALSE], si)
    /\ atObs' = ATObsInit
    /\ UNCHANGED <<unit, now, at, vadVars, wwVars, viVars, ttsVars, subVars, chat>>

\* stopListening() called from outside
StopListeningCall ==
    /\ si' = StopListening(si)
    /\ siFrames' = siFrames \ {si.animationFrame}
    /\ siObs' = ObserveRelease([siObs EXCEPT !.events = <<>>, !.framed = FALSE,
                                             !.stopped = TRUE,
                                             !.stopsInRow = Min(@ + 1, 2),
                                             !.deactZeroFor = -1, !.edge = FALSE], si)

SIStopListening ==
    /\ StopListeningCall
    /\ atObs' = ATObsInit
    /\ UNCHANGED <<unit, now, at, siPending, vadVars, wwVars, viVars, ttsVars, subVars, chat>>

\* triggerCalibration()
triggerCalibration ==
    /\ at' = IF si.enableAdaptive THEN ATCalibrate(at, NoSamples, now) ELSE at
    /\ atObs' = IF si.enableAdaptive
               THEN [called |-> TRUE, pre |-> at, dropped |-> FALSE]
               ELSE ATObsInit
    /\ siObs' = [siObs EXCEPT !.events = <<>>, !.framed = FALSE, !.stopsInRow = 0,
                              !.deactZeroFor = -1, !.edge = FALSE]
    /\ UNCHANGED <<unit, now, si, siFrames, siPending, vadVars, wwVars, viVars, ttsVars, subVars, chat>>

\* the levels handed to setTemporaryThreshold and to addNoiseSample; the
\* samples come in non-decreasing order
TemporaryThresholds == {0}
SampleDb == {-90, -50}
NextSamples(a) ==
    {db \in SampleDb :
        a.noiseSamples = <<>> \/ db >= a.noiseSamples[Len(a.noiseSamples)]}

\* setTemporaryThreshold(db)
setTemporaryThreshold(db) ==
    /\ at' = IF si.enableAdaptive THEN [at EXCEPT !.threshold = db] ELSE at
    /\ si' = IF si.enableAdaptive THEN [si EXCEPT !.currentThreshold = db] ELSE si
    /\ siObs' = [siObs EXCEPT !.events = <<>>, !.framed = FALSE,
                              !.stopsInRow = 0, !.deactZeroFor = -1, !.edge = FALSE]
    /\ atObs' = ATObsInit
    /\ UNCHANGED <<unit, now, siFrames, siPending, vadVars, wwVars, viVars, ttsVars, subVars, chat>>

siNext ==
    \/ \E id \in siFrames, data \in SIFrameData : SIFrame(id, data)
    \/ SIStartListening
    \/ \E data \in SIFrameData : SIStartResolve(data)
    \/ SIStartReject
    \/ SIStopListening
    \/ triggerCalibration
    \/ \E db \in TemporaryThresholds : setTemporaryThreshold(db)

\* frames of no content: one without a bin, one of zeros only
DegenerateFrames == {<<>>, <<0, 0, 0>>}

\* the detector fed with every kind of frame
siFramesNext ==
    \/ \E id \in siFrames, data \in SIFrameData \cup DegenerateFrames :
          SIFrame(id, data)
    \/ SIStartListening
    \/ \E data \in SIFrameData \cup DegenerateFrames : SIStartResolve(data)
    \/ SIStartReject
    \/ SIStopListening

\* the AdaptiveThreshold of an instance that is not listening, driven
\* through its own methods
addNoiseSample(db) ==
    /\ at' = ATAddNoiseSample(at, db, now)
    /\ atObs' = [called |-> CalibrationDue(ATPush(at, db), now),
                 pre |-> IF CalibrationDue(ATPush(at, db), now)
                         THEN ATPush(at, db) ELSE <<>>,
                 dropped |-> Len(at.noiseSamples) >= at.noiseSampleSize * 2]
    /\ UNCHANGED <<unit, now, si, siFrames, siPending, siObs, vadVars, wwVars, viVars, ttsVars, subVars, chat>>

reset ==
    /\ at' = ATReset(at)
    /\ atObs' = ATObsInit
    /\ UNCHANGED <<unit, now, si, siFrames, siPending, siObs, vadVars, wwVars, viVars, ttsVars, subVars, chat>>

\* the options of the AdaptiveThreshold driven directly
ATOptions ==
    [thresholdOffset |-> 0, stdMultiplier |-> 0, calibrationInterval |-> 800,
     noiseSampleSize |-> 5, minThreshold |-> 0, maxThreshold |-> 0]

atNext ==
    \/ \E db \in NextSamples(at) : addNoiseSample(db)
    \/ triggerCalibration
    \/ reset
    \/ \E db \in TemporaryThresholds : setTemporaryThreshold(db)

---------------------------------------------------------------------------
(* useWakeWord.  ww.webVoiceProcessor is "null" or what the processor it
   holds is doing; wwProcs counts the processors no longer held: running,
   starting (their start() is awaited), stopped while their start() is
   awaited. *)

WakeWordResetDelay == 2000

WWInit ==
    [wakeWordDetected |-> FALSE, isListening |-> FALSE, isInitialized |-> FALSE,
     error |-> FALSE, wakeResponseState |-> "idle",
     porcupine |-> NullH, webVoiceProcessor |-> "null"]

WWObsInit ==
    [events |-> <<>>, stopped |-> FALSE, stopsInRow |-> 0, relMax |-> 0,
     op |-> "none", from |-> "none"]

\* processors alive or awaited, and calls suspended
Busy ==
    (IF ww.webVoiceProcessor = "null" THEN 0 ELSE 1) + wwProcs.running
        + wwProcs.starting + wwProcs.stopped + wwPending.media + wwPending.init

enterWakingState(w) == [w EXCEPT !.wakeResponseState = "waking"]
\* an enterRecordingState() that would notify and leave the state as it is
enterRecordingStateUnset(w) == w
enterRecordingState(w) == [w EXCEPT !.wakeResponseState = "recording"]
enterProcessingState(w) == [w EXCEPT !.wakeResponseState = "processing"]
\* a resetToIdle() that would spare a recording in progress
resetToIdleUnlessRecording(w) ==
    IF w.wakeResponseState = "recording" THEN w
    ELSE [w EXCEPT !.wakeResponseState = "idle"]
resetToIdle(w) == [w EXCEPT !.wakeResponseState = "idle"]

WWQuiet(o) ==
    [o EXCEPT !.events = <<>>, !.stopsInRow = 0, !.op = "none", !.from = "none"]

\* init() up to its await of Porcupine.create
WWInitBegin ==
    /\ Busy < MaxStarts
    /\ ww' = [ww EXCEPT !.error = FALSE]
    /\ wwPending' = [wwPending EXCEPT !.init = @ + 1]
    /\ wwObs' = WWQuiet(wwObs)
    /\ UNCHANGED <<unit, now, wwProcs, wwTimers, vadVars, siVars, viVars, ttsVars, subVars, chat>>

WWInitResolve ==
    /\ wwPending.init > 0
    /\ wwPending' = [wwPending EXCEPT !.init = @ - 1]
    /\ ww' = [ww EXCEPT !.porcupine = 0, !.isInitialized = TRUE]
    /\ wwObs' = WWQuiet(wwObs)
    /\ UNCHANGED <<unit, now, wwProcs, wwTimers, vadVars, siVars, viVars, ttsVars, subVars, chat>>

WWInitReject ==
    /\ wwPending.init > 0
    /\ wwPending' = [wwPending EXCEPT !.init = @ - 1]
    /\ ww' = [ww EXCEPT !.error = TRUE]
    /\ wwObs' = WWQuiet(wwObs)
    /\ UNCHANGED <<unit, now, wwProcs, wwTimers, vadVars, siVars, viVars, ttsVars, subVars, chat>>

\* start(): webVoiceProcessor = a new processor, whose start() is awaited;
\* the one held before is held no longer
WWBuild(w, procs) ==
    [ww |-> [w EXCEPT !.webVoiceProcessor = "starting"],
     procs |-> [procs EXCEPT
                  !.running = IF w.webVoiceProcessor = "running" THEN @ + 1 ELSE @,
                  !.starting = IF w.webVoiceProcessor = "starting" THEN @ + 1 ELSE @]]

\* start(stream): up to its first await
WWStartCall(withStream) ==
    /\ IF ~ww.isInitialized \/ ww.porcupine = NullH
       THEN /\ ww' = [ww EXCEPT !.error = TRUE]
            /\ UNCHANGED <<wwProcs, wwPending>>
       ELSE IF withStream
            THEN LET b == WWBuild([ww EXCEPT !.error = FALSE], wwProcs)
                 IN  /\ ww' = b.ww
                     /\ wwProcs' = b.procs
                     /\ UNCHANGED wwPending
            ELSE /\ ww' = [ww EXCEPT !.error = FALSE]
                 /\ wwPending' = [wwPending EXCEPT !.media = @ + 1]
                 /\ UNCHANGED wwProcs
    /\ wwObs' = [WWQuiet(wwObs) EXCEPT !.stopped = FALSE]

WWStart(withStream) ==
    /\ Busy < MaxStarts
    /\ WWStartCall(withStream)
    /\ UNCHANGED <<unit, now, wwTimers, vadVars, siVars, viVars, ttsVars, subVars, chat>>

\* getUserMedia resolves
WWMediaResolve ==
    /\ wwPending.media > 0
    /\ wwPending' = [wwPending EXCEPT !.media = @ - 1]
    /\ LET b == WWBuild(ww, wwProcs)
       IN  /\ ww' = b.ww
           /\ wwProcs' = b.procs
    /\ wwObs' = WWQuiet(wwObs)
    /\ UNCHANGED <<unit, now, wwTimers, vadVars, siVars, viVars, ttsVars, subVars, chat>>

\* getUserMedia rejects: start() records the error and returns false
WWMediaReject ==
    /\ wwPending.media > 0
    /\ wwPending' = [wwPending EXCEPT !.media = @ - 1]
    /\ ww' = [ww EXCEPT !.error = TRUE]
    /\ wwObs' = WWQuiet(wwObs)
    /\ UNCHANGED <<unit, now, wwProcs, wwTimers, vadVars, siVars, viVars, ttsVars, subVars, chat>>

\* the processors whose start() a suspended start() awaits
Awaited ==
    (IF ww.webVoiceProcessor = "starting" THEN {"held"} ELSE {})
        \cup (IF wwProcs.starting > 0 THEN {"starting"} ELSE {})
        \cup (IF wwProcs.stopped > 0 THEN {"stopped"} ELSE {})

\* the await of processor.start() is over for processor which
WWSettle(w, procs, which, outcome) ==
    [ww |-> IF which = "held" THEN [w EXCEPT !.webVoiceProcessor = outcome] ELSE w,
     procs |-> [procs EXCEPT
                  !.starting = IF which = "starting" THEN @ - 1 ELSE @,
                  !.running = IF which = "starting" /\ outcome = "running"
                              THEN @ + 1 ELSE @,
                  !.stopped = IF which = "stopped" THEN @ - 1 ELSE @]]

\* webVoiceProcessor.start() resolves: start() ends
WWProcStarted(which) ==
    /\ which \in Awaited
    /\ LET r == WWSettle(ww, wwProcs, which, "running")
       IN  /\ ww' = [r.ww EXCEPT !.isListening = TRUE]
           /\ wwProcs' = r.procs
    /\ wwObs' = WWQuiet(wwObs)
    /\ UNCHANGED <<unit, now, wwPending, wwTimers, vadVars, siVars, viVars, ttsVars, subVars, chat>>

\* webVoiceProcessor.start() rejects: start() records the error
WWProcFailed(which) ==
    /\ which \in Awaited
    /\ LET r == WWSettle(ww, wwProcs, which, "failed")
       IN  /\ ww' = [r.ww EXCEPT !.error = TRUE]
           /\ wwProcs' = r.procs
    /\ wwObs' = WWQuiet(wwObs)
    /\ UNCHANGED <<unit, now, wwPending, wwTimers, vadVars, siVars, viVars, ttsVars, subVars, chat>>

\* stop()
WWStopState(w) ==
    [w EXCEPT !.webVoiceProcessor = "null",
              !.isListening = FALSE,
              !.wakeWordDetected = FALSE]

\* the processor stop() stops: one whose start() is awaited stays awaited
WWStopProcs(w, procs) ==
    [procs EXCEPT !.stopped = IF w.webVoiceProcessor = "starting" THEN @ + 1 ELSE @]

\* ... as an observer counts the stops of one processor
ObserveProcStop(o, w) ==
    [o EXCEPT !.relMax = IF w.webVoiceProcessor = "null" THEN @
                         ELSE IF w.webVoiceProcessor = "stopped" THEN 2
                         ELSE Max(@, 1)]

WWStopCall ==
    /\ ww' = WWStopState(ww)
    /\ wwProcs' = WWStopProcs(ww, wwProcs)
    /\ wwObs' = [ObserveProcStop(wwObs, ww) EXCEPT
                    !.events = <<>>, !.stopped = TRUE,
                    !.stopsInRow = Min(@ + 1, 2),
                    !.op = "none", !.from = "none"]

WWStop ==
    /\ WWStopCall
    /\ UNCHANGED <<unit, now, wwPending, wwTimers, vadVars, siVars, viVars, ttsVars, subVars, chat>>

\* release(): stop(), then the engine
WWRelease ==
    /\ ww' = [WWStopState(ww) EXCEPT !.porcupine = NullH,
                                     !.isInitialized = FALSE,
                                     !.error = FALSE]
    /\ wwProcs' = WWStopProcs(ww, wwProcs)
    /\ wwObs' = [ObserveProcStop(wwObs, ww) EXCEPT
                    !.events = <<>>, !.stopped = TRUE, !.stopsInRow = 0,
                    !.op = "none", !.from = "none",
                    !.relMax = IF ww.porcupine # NullH
                               THEN Max(@, Released(ww.porcupine)) ELSE @]
    /\ UNCHANGED <<unit, now, wwPending, wwTimers, vadVars, siVars, viVars, ttsVars, subVars, chat>>

\* the detector's results: no match, a match
ResultIndexes == {-1, 0}

\* processAudioCallback(audioFrame) of a running processor; a frame that
\* cannot be processed (the engine is gone) throws and is caught
ProcessAudio(resultIndex) ==
    /\ ww.webVoiceProcessor = "running" \/ wwProcs.running > 0
    /\ IF ww.porcupine # NullH /\ resultIndex >= 0
       THEN /\ ww' = enterRecordingState(enterWakingState(
                        [ww EXCEPT !.wakeWordDetected = TRUE]))
            /\ wwTimers' = wwTimers \cup {now + WakeWordResetDelay}
            /\ wwObs' = [wwObs EXCEPT !.events = <<"waking", "recording", "onWakeWord">>,
                                      !.stopsInRow = 0,
                                      !.op = "wake",
                                      !.from = ww.wakeResponseState]
       ELSE /\ wwObs' = WWQuiet(wwObs)
            /\ UNCHANGED <<ww, wwTimers>>

WWAudioFrame(resultIndex) ==
    /\ ProcessAudio(resultIndex)
    /\ UNCHANGED <<unit, now, wwProcs, wwPending, vadVars, siVars, viVars, ttsVars, subVars, chat>>

\* the timer set on a match fires
WWTimer(due) ==
    /\ due \in wwTimers
    /\ due <= now
    /\ wwTimers' = wwTimers \ {due}
    /\ ww' = [ww EXCEPT !.wakeWordDetected = FALSE]
    /\ wwObs' = WWQuiet(wwObs)
    /\ UNCHANGED <<unit, now, wwProcs, wwPending, vadVars, siVars, viVars, ttsVars, subVars, chat>>

ResetResponse ==
    /\ ww' = resetToIdle(ww)
    /\ wwObs' = [wwObs EXCEPT !.events = <<"idle">>, !.stopsInRow = 0,
                              !.op = "reset", !.from = ww.wakeResponseState]

resetResponseState ==
    /\ ResetResponse
    /\ UNCHANGED <<unit, now, wwProcs, wwPending, wwTimers, vadVars, siVars, viVars, ttsVars, subVars, chat>>

wwNext ==
    \/ WWInitBegin
    \/ WWInitResolve
    \/ WWInitReject
    \/ \E withStream \in BOOLEAN : WWStart(withStream)
    \/ WWMediaResolve
    \/ WWMediaReject
    \/ \E which \in Awaited : WWProcStarted(which)
    \/ \E which \in Awaited : WWProcFailed(which)
    \/ WWStop
    \/ WWRelease
    \/ \E resultIndex \in ResultIndexes : WWAudioFrame(resultIndex)
    \/ \E due \in wwTimers : WWTimer(due)
    \/ resetResponseState

(* VoiceInput: the component that owns one useVAD and one useWakeWord *)

ViTickMs == 1000
ViMaxTicks == 6
ViMaxStarts == 1
\* startWakeWordRecording(): the length of a recording and of a countdown step
TotalDuration == 5000
CountdownStepMs == 1000

VIInit ==
    [useVADMode |-> FALSE, useWakeWordMode |-> FALSE, isListening |-> FALSE,
     recordingCountdown |-> 0, countdownInterval |-> 0]

\* what an observer of the component sees: the countdown values emitted, how
\* many recordings the wake word has begun, and how the last handler that ran
\* ended a recording ("none" when it ended none)
VIObsInit == [ticks |-> 0, sessions |-> 0, ended |-> "none"]

VIQuiet(o) == [o EXCEPT !.ended = "none"]

\* chatStore.setListening
setListening(v, value) == [v EXCEPT !.isListening = value]

\* toggleWakeWordMode(): start() of useWakeWord reports failure by its return
\* value, which is not looked at
toggleWakeWordMode ==
    /\ ww.isInitialized
    /\ IF ~vi.useWakeWordMode
       THEN /\ Busy < ViMaxStarts
            /\ vi' = [vi EXCEPT !.useWakeWordMode = TRUE]
            /\ WWStartCall(FALSE)
            /\ UNCHANGED <<wwTimers>>
       ELSE /\ vi' = setListening([vi EXCEPT !.useWakeWordMode = FALSE], FALSE)
            /\ WWStopCall
            /\ UNCHANGED <<wwPending, wwTimers>>
    /\ viObs' = VIQuiet(viObs)
    /\ UNCHANGED <<unit, now, viTimers, viPending, vadVars, siVars, ttsVars, subVars, chat>>

\* a frame of the wake-word engine; on a match the onWakeWordDetected callback
\* runs handleWakeWordDetected(), and startWakeWordRecording() runs up to its
\* await of initVisualization()
VIAudioFrame(resultIndex) ==
    /\ ProcessAudio(resultIndex)
    /\ resultIndex >= 0 => viObs.sessions < MaxStarts /\ wwTimers = {}
    /\ IF ww.porcupine # NullH /\ resultIndex >= 0 /\ vi.useWakeWordMode
       THEN /\ vi' = setListening(vi, TRUE)
            /\ viPending' = [viPending EXCEPT !.recording = @ + 1]
            /\ viObs' = [VIQuiet(viObs) EXCEPT !.sessions = @ + 1]
       ELSE /\ viObs' = VIQuiet(viObs)
            /\ UNCHANGED <<vi, viPending>>
    /\ UNCHANGED <<unit, now, wwProcs, wwPending, viTimers, vadVars, siVars, ttsVars, subVars, chat>>

NewTimerId == viObs.sessions

\* startWakeWordRecording() after initVisualization() has settled: the
\* countdown is set to 5, an interval and a timeout are armed
startWakeWordRecording ==
    /\ viPending.recording > 0
    /\ viPending' = [viPending EXCEPT !.recording = @ - 1, !.asr = @ + 1]
    /\ vi' = [vi EXCEPT !.recordingCountdown = TotalDuration \div 1000,
                        !.countdownInterval = NewTimerId]
    /\ viTimers' = [intervals |-> viTimers.intervals \cup
                                    {[id |-> NewTimerId, due |-> now + CountdownStepMs]},
                    timeouts |-> viTimers.timeouts \cup {now + TotalDuration}]
    /\ viObs' = [VIQuiet(viObs) EXCEPT !.ticks = 0]
    /\ UNCHANGED <<unit, now, vadVars, siVars, wwVars, ttsVars, subVars, chat>>

\* clearInterval(id)
clearInterval(intervals, id) == {t \in intervals : t.id # id}

\* the callback of the countdown interval: it clears whatever interval the
\* ref names now
CountdownTick(t) ==
    /\ t \in viTimers.intervals
    /\ t.due <= now
    /\ LET left == vi.recordingCountdown - 1
           next == (viTimers.intervals \ {t}) \cup
                       {[id |-> t.id, due |-> t.due + CountdownStepMs]}
       IN  /\ vi' = [vi EXCEPT !.recordingCountdown = left]
           /\ viTimers' = [viTimers EXCEPT !.intervals =
                               IF left <= 0 THEN clearInterval(next, vi.countdownInterval)
                               ELSE next]
    /\ viObs' = [VIQuiet(viObs) EXCEPT !.ticks = Min(@ + 1, TotalDuration \div 1000 + 1)]
    /\ UNCHANGED <<unit, now, viPending, vadVars, siVars, wwVars, ttsVars, subVars, chat>>

\* manualStopRecording()
manualStopState(v) == setListening(v, FALSE)

\* wakeWordStopRecording(), run when the timer `due' has fired
wakeWordStopRecording(due) ==
    /\ vi' = manualStopState([vi EXCEPT !.countdownInterval = 0,
                                        !.recordingCountdown = 0])
    /\ viTimers' = [intervals |-> IF vi.countdownInterval # 0
                                  THEN clearInterval(viTimers.intervals,
                                                     vi.countdownInterval)
                                  ELSE viTimers.intervals,
                    timeouts |-> viTimers.timeouts \ {due}]
    /\ ResetResponse

\* the callback of the recording timeout
RecordingTimeout(due) ==
    /\ due \in viTimers.timeouts
    /\ due <= now
    /\ IF vi.isListening
       THEN /\ wakeWordStopRecording(due)
            /\ viObs' = [viObs EXCEPT !.ended = "auto"]
       ELSE /\ viTimers' = [viTimers EXCEPT !.timeouts = @ \ {due}]
            /\ viObs' = VIQuiet(viObs)
            /\ UNCHANGED <<vi, ww, wwObs>>
    /\ UNCHANGED <<unit, now, viPending, wwProcs, wwPending, wwTimers, vadVars, siVars, ttsVars, subVars, chat>>

\* the main button, enabled in neither mode: press and release
startRecording ==
    /\ ~vi.useVADMode /\ ~vi.useWakeWordMode
    /\ vi' = setListening(vi, TRUE)
    /\ viObs' = VIQuiet(viObs)
    /\ UNCHANGED <<unit, now, viTimers, viPending, vadVars, siVars, wwVars, ttsVars, subVars, chat>>

manualStopRecording ==
    /\ ~vi.useVADMode /\ ~vi.useWakeWordMode
    /\ vi' = manualStopState(vi)
    /\ viObs' = [viObs EXCEPT !.ended = IF ww.wakeResponseState = "recording"
                                        THEN "manual" ELSE "none"]
    /\ UNCHANGED <<unit, now, viTimers, viPending, vadVars, siVars, wwVars, ttsVars, subVars, chat>>

\* the audio the component's VAD is fed: a quiet room
VIFrameData == {<<5, 5>>}

\* the onSpeechStart and onSpeechEnd callbacks the component registered
VADCallbacks(v, events) ==
    IF events # <<>> /\ events[Len(events)] = "onSpeechStart" THEN setListening(v, TRUE)
    ELSE IF events # <<>> /\ events[Len(events)] = "onSpeechEnd" THEN setListening(v, FALSE)
    ELSE v

\* toggleVADMode(): on, up to its await of initVisualization(); off, to its end
toggleVADMode ==
    /\ unit = "VIModes"
    /\ IF ~vi.useVADMode
       THEN /\ Cardinality(vadFrames) + vadPending + viPending.visualization < ViMaxStarts
            /\ vi' = [vi EXCEPT !.useVADMode = TRUE]
            /\ viPending' = [viPending EXCEPT !.visualization = @ + 1]
            /\ UNCHANGED <<vad, vadFrames, vadObs>>
       ELSE /\ vi' = setListening([vi EXCEPT !.useVADMode = FALSE], FALSE)
            /\ VADStopCall
            /\ UNCHANGED viPending
    /\ viObs' = VIQuiet(viObs)
    /\ UNCHANGED <<unit, now, viTimers, vadPending, siVars, wwVars, ttsVars, subVars, chat>>

\* initVisualization() settles with a stream or with null, and startVAD runs
VisualizationSettled(withStream, data) ==
    /\ viPending.visualization > 0
    /\ viPending' = [viPending EXCEPT !.visualization = @ - 1]
    /\ IF withStream
       THEN /\ VADRunStart(InitContext(vad), [vadObs EXCEPT !.stopped = FALSE], data)
            /\ vi' = VADCallbacks(vi, vadObs'.events)
            /\ UNCHANGED vadPending
       ELSE /\ vad' = InitContext(vad)
            /\ vadPending' = vadPending + 1
            /\ vadObs' = [vadObs EXCEPT !.stopped = FALSE, !.events = <<>>,
                                        !.endRun = -1, !.endActive = -1,
                                        !.stopsInRow = 0]
            /\ UNCHANGED <<vi, vadFrames>>
    /\ viObs' = VIQuiet(viObs)
    /\ UNCHANGED <<unit, now, viTimers, siVars, wwVars, ttsVars, subVars, chat>>

\* getUserMedia of startVAD() resolves
VIStartResolve(data) ==
    /\ vadPending > 0
    /\ vadPending' = vadPending - 1
    /\ VADRunStart(vad, StreamOpened(vadObs), data)
    /\ vi' = VADCallbacks(vi, vadObs'.events)
    /\ viObs' = VIQuiet(viObs)
    /\ UNCHANGED <<unit, now, viTimers, viPending, siVars, wwVars, ttsVars, subVars, chat>>

\* getUserMedia of startVAD() rejects: the catch of toggleVADMode() runs
VIStartReject ==
    /\ vadPending > 0
    /\ vadPending' = vadPending - 1
    /\ vadObs' = [vadObs EXCEPT !.events = <<>>, !.endRun = -1,
                                !.endActive = -1, !.stopsInRow = 0]
    /\ vi' = [vi EXCEPT !.useVADMode = FALSE]
    /\ viObs' = VIQuiet(viObs)
    /\ UNCHANGED <<unit, now, vad, vadFrames, viTimers, viPending, siVars, wwVars, ttsVars, subVars, chat>>

\* a frame of the VAD loop, with the component's callbacks
VIFrame(id, data) ==
    /\ RunFrame(id, data)
    /\ vi' = VADCallbacks(vi, vadObs'.events)
    /\ viObs' = VIQuiet(viObs)
    /\ UNCHANGED <<unit, now, vadPending, viTimers, viPending, siVars, wwVars, ttsVars, subVars, chat>>

\* ASRService.start() of a wake-word recording gets its microphone
ASRStarted ==
    /\ viPending.asr > 0
    /\ viPending' = [viPending EXCEPT !.asr = @ - 1]
    /\ viObs' = VIQuiet(viObs)
    /\ UNCHANGED <<unit, now, vi, viTimers, vadVars, siVars, wwVars, ttsVars, subVars, chat>>

\* ... or fails: the onError handler given to ASRService.init runs
ASRError ==
    /\ viPending.asr > 0
    /\ viPending' = [viPending EXCEPT !.asr = @ - 1]
    /\ vi' = setListening(vi, FALSE)
    /\ IF vi.useVADMode
       THEN VADStopCall
       ELSE UNCHANGED <<vad, vadFrames, vadObs>>
    /\ viObs' = [viObs EXCEPT !.ended = IF ww.wakeResponseState = "recording"
                                        THEN "error" ELSE "none"]
    /\ UNCHANGED <<unit, now, viTimers, vadPending, siVars, wwVars, ttsVars, subVars, chat>>

viNext ==
    \/ ASRStarted
    \/ ASRError
    \/ WWInitResolve
    \/ WWInitReject
    \/ toggleWakeWordMode
    \/ WWMediaResolve
    \/ WWMediaReject
    \/ \E which \in Awaited : WWProcStarted(which)
    \/ \E which \in Awaited : WWProcFailed(which)
    \/ \E resultIndex \in ResultIndexes : VIAudioFrame(resultIndex)
    \/ \E due \in wwTimers : WWTimer(due)
    \/ startWakeWordRecording
    \/ \E t \in viTimers.intervals : CountdownTick(t)
    \/ \E due \in viTimers.timeouts : RecordingTimeout(due)
    \/ startRecording
    \/ manualStopRecording
    \/ toggleVADMode
    \/ \E withStream \in BOOLEAN, data \in VIFrameData : VisualizationSettled(withStream, data)
    \/ \E data \in VIFrameData : VIStartResolve(data)
    \/ VIStartReject
    \/ \E id \in vadFrames, data \in VIFrameData : VIFrame(id, data)

(* The subscriptions: the callback arrays of useVAD and of useWakeWord, and
   the one callback TTSService keeps for the interrupt *)

Channels ==
    {"onSpeechStart", "onSpeechEnd", "onVolumeUpdate", "onWakeResponse",
     "onSpeechInterrupt"}

SubsInit == [ch \in Channels |-> <<>>]

\* how many subscribers an observer has seen register, on each channel and
\* in all; the k-th of a channel goes by the name k
SubsObsInit == [registered |-> [ch \in Channels |-> 0], total |-> 0]

MaxSubs == 2

\* onSpeechStart(cb), onSpeechEnd(cb), onVolumeUpdate(cb), onWakeResponse(cb):
\* the callback is pushed onto the array of its channel
Subscribe(ch) ==
    /\ ch # "onSpeechInterrupt"
    /\ subsObs.total < MaxSubs
    /\ subs' = [subs EXCEPT ![ch] = Append(@, subsObs.registered[ch] + 1)]
    /\ subsObs' = [subsObs EXCEPT !.registered[ch] = @ + 1, !.total = @ + 1]
    /\ UNCHANGED <<unit, now, vadVars, siVars, wwVars, viVars, ttsVars, chat>>

\* TTSService.init(config): this.onSpeechInterrupt = config.onSpeechInterrupt,
\* and a new detector takes the place of the one held before
Configure ==
    /\ subsObs.total < MaxSubs
    /\ subs' = [subs EXCEPT !["onSpeechInterrupt"] =
                    <<subsObs.registered["onSpeechInterrupt"] + 1>>]
    /\ subsObs' = [subsObs EXCEPT !.registered["onSpeechInterrupt"] = @ + 1,
                                  !.total = @ + 1]
    /\ tts' = [tts EXCEPT !.speechInterrupt = TRUE]
    /\ si' = SIInit(TRUE, FALSE, 2)
    /\ at' = ATNew(SIAdaptiveOptions, now)
    /\ siFrames' = {}
    /\ siPending' = 0
    /\ siObs' = SIObsInit
    /\ atObs' = ATObsInit
    /\ ttsObs' = [ttsObs EXCEPT !.op = "init"]
    /\ UNCHANGED <<unit, now, ttsPlaying, ttsPending, vadVars, wwVars, viVars, chat>>

\* callbacks.forEach(cb => cb(...)) for each event of a step, in order, the
\* callbacks being those of the registry
RECURSIVE Invoked(_, _)
Invoked(registry, events) ==
    IF events = <<>> THEN <<>>
    ELSE LET e == Head(events)
             ch == IF e \in {"idle", "waking", "recording", "processing"}
                   THEN "onWakeResponse" ELSE e
             called == IF ch \in Channels
                       THEN [i \in 1..Len(registry[ch]) |-> <<e, registry[ch][i]>>]
                       ELSE <<>>
         IN  called \o Invoked(registry, Tail(events))

subsNext ==
    \/ \E ch \in Channels : Subscribe(ch)
    \/ Configure
    \/ \E data \in VADFrameData : VADStartWithStream(data)
    \/ \E id \in vadFrames, data \in VADFrameData : VADFrame(id, data)
    \/ VADStop
    \/ resetResponseState

(* TTSService, which owns one useSpeechInterrupt made with the defaults *)

\* the constructor
TTSNew == [audio |-> 0, isPlaying |-> FALSE, speechInterrupt |-> FALSE]

\* what an observer of the service sees: how many speak() calls there were,
\* and which of its handlers ran last
\* and how many times the last handleSpeechInterrupt() called the callback of
\* the configuration
TTSObsInit == [speaks |-> 0, op |-> "none", callbacks |-> 0]

\* init(config)
TTSInit ==
    /\ ~tts.speechInterrupt
    /\ tts' = [tts EXCEPT !.speechInterrupt = TRUE]
    /\ ttsObs' = [ttsObs EXCEPT !.op = "init"]
    /\ UNCHANGED <<unit, now, ttsPlaying, ttsPending, vadVars, siVars, wwVars, viVars, subVars, chat>>

\* stop()
TTSStopState(t) == [t EXCEPT !.audio = 0]
TTSStopPlaying(t, playing) == IF t.audio # 0 THEN playing \ {t.audio} ELSE playing

\* enableSpeechInterrupt(): startListening() up to its await of getUserMedia
EnableSpeechInterrupt ==
    /\ siPending' = IF tts.speechInterrupt /\ ~si.isListening
                    THEN siPending + 1 ELSE siPending
    /\ siObs' = IF tts.speechInterrupt
                THEN [siObs EXCEPT !.events = <<>>, !.framed = FALSE,
                                   !.stopped = FALSE, !.stopsInRow = 0,
                                   !.deactZeroFor = -1, !.edge = FALSE]
                ELSE siObs
    /\ atObs' = ATObsInit
    /\ UNCHANGED <<si, at, siFrames>>

\* disableSpeechInterrupt(): stopListening()
DisableSpeechInterrupt ==
    /\ IF tts.speechInterrupt
       THEN StopListeningCall
       ELSE UNCHANGED <<si, siFrames, siObs>>
    /\ atObs' = ATObsInit
    /\ UNCHANGED <<at, siPending>>

\* speak(text) up to its await of fetch
TTSSpeak ==
    /\ ttsObs.speaks < MaxStarts
    /\ tts' = [TTSStopState(tts) EXCEPT !.isPlaying = TRUE]
    /\ ttsPlaying' = TTSStopPlaying(tts, ttsPlaying)
    /\ EnableSpeechInterrupt
    /\ ttsPending' = [ttsPending EXCEPT !.fetch = @ + 1]
    /\ ttsObs' = [ttsObs EXCEPT !.speaks = @ + 1, !.op = "speak"]
    /\ UNCHANGED <<unit, now, vadVars, wwVars, viVars, subVars, chat>>

\* the catch of speak()
TTSCatch ==
    /\ tts' = [tts EXCEPT !.isPlaying = FALSE]
    /\ DisableSpeechInterrupt
    /\ ttsObs' = [ttsObs EXCEPT !.op = "failed"]
    /\ UNCHANGED <<unit, now, ttsPlaying, vadVars, wwVars, viVars, subVars, chat>>

\* fetch resolves, with response.ok or without
TTSFetchResolve(ok) ==
    /\ ttsPending.fetch > 0
    /\ IF ok
       THEN /\ ttsPending' = [fetch |-> ttsPending.fetch - 1,
                              blob |-> ttsPending.blob + 1]
            /\ ttsObs' = [ttsObs EXCEPT !.op = "none"]
            /\ atObs' = ATObsInit
            /\ UNCHANGED <<unit, now, tts, ttsPlaying, si, at, siFrames, siPending,
                           siObs, vadVars, wwVars, viVars, subVars, chat>>
       ELSE /\ ttsPending' = [ttsPending EXCEPT !.fetch = @ - 1]
            /\ TTSCatch

\* fetch rejects
TTSFetchReject ==
    /\ ttsPending.fetch > 0
    /\ ttsPending' = [ttsPending EXCEPT !.fetch = @ - 1]
    /\ TTSCatch

\* response.blob() resolves: a new Audio is made, referenced and played
TTSBlobResolve ==
    /\ ttsPending.blob > 0
    /\ ttsPending' = [ttsPending EXCEPT !.blob = @ - 1]
    /\ LET id == ttsObs.speaks - ttsPending.fetch - ttsPending.blob + 1
       IN  /\ tts' = [tts EXCEPT !.audio = id]
           /\ ttsPlaying' = ttsPlaying \cup {id}
    /\ ttsObs' = [ttsObs EXCEPT !.op = "play"]
    /\ atObs' = ATObsInit
    /\ UNCHANGED <<unit, now, si, at, siFrames, siPending, siObs, vadVars, wwVars,
                   viVars, subVars, chat>>

\* response.blob() rejects
TTSBlobReject ==
    /\ ttsPending.blob > 0
    /\ ttsPending' = [ttsPending EXCEPT !.blob = @ - 1]
    /\ TTSCatch

\* audio.onended and audio.onerror of an audio that is sounding
TTSAudioDone(id, op) ==
    /\ id \in ttsPlaying
    /\ ttsPlaying' = ttsPlaying \ {id}
    /\ tts' = [tts EXCEPT !.isPlaying = FALSE]
    /\ DisableSpeechInterrupt
    /\ ttsObs' = [ttsObs EXCEPT !.op = op]
    /\ UNCHANGED <<unit, now, ttsPending, vadVars, wwVars, viVars, subVars, chat>>

TTSAudioEnded(id) == TTSAudioDone(id, "ended")
TTSAudioError(id) == TTSAudioDone(id, "failed")

\* stop() called from outside
TTSStop ==
    /\ tts' = TTSStopState(tts)
    /\ ttsPlaying' = TTSStopPlaying(tts, ttsPlaying)
    /\ ttsObs' = [ttsObs EXCEPT !.op = "stopped"]
    /\ atObs' = ATObsInit
    /\ UNCHANGED <<unit, now, ttsPending, si, at, siFrames, siPending, siObs,
                   vadVars, wwVars, viVars, subVars, chat>>

\* handleSpeechInterrupt(), the onSpeechDetected of the detector and a method
\* of the exported service: stop(), then the callback of the configuration
\* if there is one
handleSpeechInterrupt ==
    /\ tts.speechInterrupt
    /\ tts' = TTSStopState(tts)
    /\ ttsPlaying' = TTSStopPlaying(tts, ttsPlaying)
    /\ ttsObs' = [ttsObs EXCEPT !.op = "interrupt",
                                !.callbacks = Len(subs["onSpeechInterrupt"])]
    /\ atObs' = ATObsInit
    /\ UNCHANGED <<unit, now, ttsPending, si, at, siFrames, siPending, siObs,
                   vadVars, wwVars, viVars, subVars, chat>>

ttsNext ==
    \/ TTSInit
    \/ TTSSpeak
    \/ \E ok \in BOOLEAN : TTSFetchResolve(ok)
    \/ TTSFetchReject
    \/ TTSBlobResolve
    \/ TTSBlobReject
    \/ \E id \in ttsPlaying : TTSAudioEnded(id)
    \/ \E id \in ttsPlaying : TTSAudioError(id)
    \/ TTSStop
    \/ \E data \in SIFrameData : SIStartResolve(data)
    \/ SIStartReject

(* The chat view: the wait audios played while a message awaits its reply *)

MaxMessages == 2

\* waitAudio, waitTimer and isPlayingWaitAudio of the view and isLoading of
\* the store; a wait audio goes by the message it was asked for and its type.
\* With them what is under way: the messages awaiting OpenClawService.chat,
\* the fetches of playWaitAudio, the messages in the 1 s pause after their
\* reply, the audios sounding, the messages sent and those settled
ChatInit ==
    [waitAudio |-> {}, waitTimer |-> {}, isPlayingWaitAudio |-> FALSE,
     isLoading |-> FALSE,
     awaiting |-> {}, fetches |-> {}, pausing |-> {}, sounding |-> {},
     sent |-> 0, settled |-> {}]

\* stopWaitAudio()
stopWaitAudio(c) ==
    [c EXCEPT !.sounding = @ \ c.waitAudio,
              !.waitAudio = {},
              !.isPlayingWaitAudio = FALSE]

\* clearWaitTimer()
clearWaitTimer(c) == [c EXCEPT !.waitTimer = {}]

\* playWaitAudio(type) up to its await of fetch
playWaitAudio(c, m, type) ==
    [stopWaitAudio(c) EXCEPT !.fetches = @ \cup {<<m, type>>}]

\* sendMessage(content) up to its await of OpenClawService.chat
sendMessage ==
    /\ chat.sent < MaxMessages
    /\ LET m == chat.sent + 1
           c1 == playWaitAudio([chat EXCEPT !.isLoading = TRUE, !.sent = m],
                               m, "confirm")
       IN  chat' = [clearWaitTimer(c1) EXCEPT !.waitTimer = {m},
                                              !.awaiting = @ \cup {m}]
    /\ UNCHANGED <<unit, now, vadVars, siVars, wwVars, viVars, ttsVars, subVars>>

\* the callback of the timer scheduleWaitingAudio() armed
WaitTimerFires(m) ==
    /\ m \in chat.waitTimer
    /\ chat' = [playWaitAudio(chat, m, "waiting") EXCEPT !.waitTimer = {}]
    /\ UNCHANGED <<unit, now, vadVars, siVars, wwVars, viVars, ttsVars, subVars>>

\* the fetch of playWaitAudio() answers: with an audio, which is referenced
\* and played, or without one
WaitFetchResolve(a, withAudio) ==
    /\ a \in chat.fetches
    /\ chat' = IF withAudio
               THEN [chat EXCEPT !.fetches = @ \ {a},
                                 !.waitAudio = {a},
                                 !.sounding = @ \cup {a},
                                 !.isPlayingWaitAudio = TRUE]
               ELSE [chat EXCEPT !.fetches = @ \ {a}]
    /\ UNCHANGED <<unit, now, vadVars, siVars, wwVars, viVars, ttsVars, subVars>>

\* the fetch fails: the catch of playWaitAudio() only warns
WaitFetchReject(a) ==
    /\ a \in chat.fetches
    /\ chat' = [chat EXCEPT !.fetches = @ \ {a}]
    /\ UNCHANGED <<unit, now, vadVars, siVars, wwVars, viVars, ttsVars, subVars>>

\* onended and onerror of a wait audio that is sounding
WaitAudioDone(a) ==
    /\ a \in chat.sounding
    /\ chat' = [chat EXCEPT !.sounding = @ \ {a}, !.isPlayingWaitAudio = FALSE]
    /\ UNCHANGED <<unit, now, vadVars, siVars, wwVars, viVars, ttsVars, subVars>>

\* OpenClawService.chat resolves: sendMessage() goes on up to its 1 s pause
ChatReply(m) ==
    /\ m \in chat.awaiting
    /\ LET c1 == clearWaitTimer(stopWaitAudio(chat))
           c2 == playWaitAudio(c1, m, "completed")
       IN  chat' = [c2 EXCEPT !.awaiting = @ \ {m},
                              !.pausing = @ \cup {m},
                              !.settled = @ \cup {m}]
    /\ UNCHANGED <<unit, now, vadVars, siVars, wwVars, viVars, ttsVars, subVars>>

\* OpenClawService.chat rejects: the catch and the finally of sendMessage()
ChatError(m) ==
    /\ m \in chat.awaiting
    /\ chat' = [clearWaitTimer(stopWaitAudio(chat)) EXCEPT
                    !.awaiting = @ \ {m},
                    !.settled = @ \cup {m},
                    !.isLoading = FALSE]
    /\ UNCHANGED <<unit, now, vadVars, siVars, wwVars, viVars, ttsVars, subVars>>

\* the pause is over: the reply is shown and handed to the speech service,
\* then the finally of sendMessage()
ReplyShown(m) ==
    /\ m \in chat.pausing
    /\ chat' = [chat EXCEPT !.pausing = @ \ {m}, !.isLoading = FALSE]
    /\ UNCHANGED <<unit, now, vadVars, siVars, wwVars, viVars, ttsVars, subVars>>

WaitAudios == (1..MaxMessages) \X {"confirm", "waiting", "completed"}

chatNext ==
    \/ sendMessage
    \/ \E m \in 1..MaxMessages : WaitTimerFires(m)
    \/ \E a \in WaitAudios, withAudio \in BOOLEAN : WaitFetchResolve(a, withAudio)
    \/ \E a \in WaitAudios : WaitFetchReject(a)
    \/ \E a \in WaitAudios : WaitAudioDone(a)
    \/ \E m \in 1..MaxMessages : ChatReply(m)
    \/ \E m \in 1..MaxMessages : ChatError(m)
    \/ \E m \in 1..MaxMessages : ReplyShown(m)

\* the service with its configuration and its interrupt handler
interruptNext ==
    \/ ttsNext
    \/ Configure
    \/ handleSpeechInterrupt

\* the step of the clock while the instance under way is driven
TickStep == IF unit = "WW" THEN WakeTickMs ELSE IF unit = "VI" THEN ViTickMs ELSE TickMs
Horizon ==
    IF unit = "VI" THEN ViTickMs * ViMaxTicks
    ELSE IF unit = "VIModes" THEN 0
    ELSE TickStep * (MaxTicks + 1)
\* the component sees the clock through its timers only
TimersArmed == viTimers.intervals # {} \/ viTimers.timeouts # {} \/ wwTimers # {}
\* a timer of the component that is due runs before the clock moves on
TimersDue ==
    \/ \E t \in viTimers.intervals : t.due <= now
    \/ \E due \in viTimers.timeouts : due <= now

\* time passes; what the last call emitted is over
Tick ==
    /\ now < Horizon
    /\ ~TimersDue
    /\ unit = "VI" => TimersArmed
    /\ now' = now + TickStep
    /\ wwTimers' = wwTimers
    /\ atObs' = ATObsInit
    /\ wwObs' = [wwObs EXCEPT !.events = <<>>, !.op = "none", !.from = "none"]
    /\ vadObs' = [vadObs EXCEPT !.events = <<>>, !.endRun = -1, !.endActive = -1]
    /\ siObs' = [siObs EXCEPT !.events = <<>>, !.framed = FALSE, !.deactZeroFor = -1,
                              !.edge = FALSE]
    /\ UNCHANGED <<unit, vad, vadFrames, vadPending, si, at, siFrames, siPending,
                   ww, wwProcs, wwPending, vi, viTimers, viPending,
                   tts, ttsPlaying, ttsPending, subVars, chat>>
    /\ ttsObs' = [ttsObs EXCEPT !.op = "none"]
    /\ viObs' = VIQuiet(viObs)

InitShared ==
    /\ now = TickMs
    /\ vad = VADInit
    /\ vadFrames = {}
    /\ vadPending = 0
    /\ vadObs = VADObsInit
    /\ siFrames = {}
    /\ siPending = 0
    /\ atObs = ATObsInit
    /\ ww = WWInit
    /\ wwProcs = [running |-> 0, starting |-> 0, stopped |-> 0]
    /\ wwPending = [init |-> 0, media |-> 0]
    /\ wwTimers = {}
    /\ wwObs = WWObsInit
    /\ vi = VIInit
    /\ viTimers = [intervals |-> {}, timeouts |-> {}]
    /\ viPending = [recording |-> 0, visualization |-> 0, asr |-> 0]
    /\ viObs = VIObsInit
    /\ tts = TTSNew
    /\ ttsPlaying = {}
    /\ ttsPending = [fetch |-> 0, blob |-> 0]
    /\ ttsObs = TTSObsInit
    /\ subs = SubsInit
    /\ subsObs = SubsObsInit
    /\ chat = ChatInit

\* one useVAD instance
InitCommon ==
    /\ InitShared
    /\ siObs = SIObsInit

InitVAD ==
    /\ unit = "VAD"
    /\ InitCommon
    /\ si = SIInit(TRUE, FALSE, 2)
    /\ at = ATNew(SIAdaptiveOptions, now)

\* one useSpeechInterrupt instance, with the options it was made with
InitSI ==
    /\ unit = "SI"
    /\ InitCommon
    /\ \E adaptive \in BOOLEAN, count \in ConfirmCounts :
          si = SIInit(adaptive, FALSE, count)
    /\ at = ATNew(SIAdaptiveOptions, now)

\* useSpeechInterrupt(options) with enableMultiLevel given as true or as false
InitSIOptions ==
    /\ unit = "SI"
    /\ InitShared
    /\ \E adaptive \in BOOLEAN, multiLevel \in BOOLEAN :
          /\ si = SIInit(adaptive, multiLevel, 2)
          /\ siObs = [SIObsInit EXCEPT !.multiLevelOption = multiLevel]
    /\ at = ATNew(SIAdaptiveOptions, now)

\* one AdaptiveThreshold, in an instance that is never started
InitAT ==
    /\ unit = "AT"
    /\ InitCommon
    /\ si = SIInit(TRUE, FALSE, 2)
    /\ at = ATNew(ATOptions, now)

\* one useWakeWord instance
InitWW ==
    /\ unit = "WW"
    /\ InitCommon
    /\ si = SIInit(TRUE, FALSE, 2)
    /\ at = ATNew(SIAdaptiveOptions, now)

\* one VoiceInput, mounted: init() of its useWakeWord is under way. It is
\* watched either over a whole recording with the wake-word switch alone in
\* use ("VI"), or within one step of the clock with both switches ("VIModes")
InitVI ==
    /\ unit \in {"VI", "VIModes"}
    /\ now = TickMs
    /\ vad = VADInit
    /\ vadFrames = {}
    /\ vadPending = 0
    /\ vadObs = VADObsInit
    /\ siFrames = {}
    /\ siPending = 0
    /\ siObs = SIObsInit
    /\ atObs = ATObsInit
    /\ si = SIInit(TRUE, FALSE, 2)
    /\ at = ATNew(SIAdaptiveOptions, now)
    /\ ww = WWInit
    /\ wwProcs = [running |-> 0, starting |-> 0, stopped |-> 0]
    /\ wwPending = [init |-> 1, media |-> 0]
    /\ wwTimers = {}
    /\ wwObs = WWObsInit
    /\ vi = VIInit
    /\ viTimers = [intervals |-> {}, timeouts |-> {}]
    /\ viPending = [recording |-> 0, visualization |-> 0, asr |-> 0]
    /\ viObs = VIObsInit
    /\ tts = TTSNew
    /\ ttsPlaying = {}
    /\ ttsPending = [fetch |-> 0, blob |-> 0]
    /\ ttsObs = TTSObsInit
    /\ subs = SubsInit
    /\ subsObs = SubsObsInit
    /\ chat = ChatInit

\* the TTSService singleton, constructed and not yet initialised
InitTTS ==
    /\ unit = "TTS"
    /\ InitCommon
    /\ si = SIInit(TRUE, FALSE, 2)
    /\ at = ATNew(SIAdaptiveOptions, now)

\* a useVAD, a useWakeWord and the TTSService, with their subscribers
InitSubs ==
    /\ unit = "Subs"
    /\ InitCommon
    /\ si = SIInit(TRUE, FALSE, 2)
    /\ at = ATNew(SIAdaptiveOptions, now)

\* the chat view
InitChat ==
    /\ unit = "Chat"
    /\ InitCommon
    /\ si = SIInit(TRUE, FALSE, 2)
    /\ at = ATNew(SIAdaptiveOptions, now)

Init == InitVAD \/ InitSI \/ InitAT \/ InitWW

Next ==
    \/ unit = "VAD" /\ vadNext
    \/ unit = "SI" /\ siNext
    \/ unit = "AT" /\ atNext
    \/ unit = "WW" /\ wwNext
    \/ Tick

SpecVAD == InitVAD /\ [][vadNext \/ Tick]_vars
SpecSI == InitSI /\ [][siNext \/ Tick]_vars
SpecSIOptions == InitSIOptions /\ [][siFramesNext \/ Tick]_vars
SpecAT == InitAT /\ [][atNext \/ Tick]_vars
SpecWW == InitWW /\ [][wwNext \/ Tick]_vars
SpecVI == InitVI /\ [][viNext \/ Tick]_vars
SpecTTS == InitTTS /\ [][ttsNext \/ Tick]_vars
SpecInterrupt == InitTTS /\ [][interruptNext \/ Tick]_vars
SpecChat == InitChat /\ [][chatNext]_vars
SpecSubs == InitSubs /\ [][subsNext \/ Tick]_vars
Spec == Init /\ [][Next]_vars

---------------------------------------------------------------------------
(* Properties *)

\* C1: useVAD.detectionLoop fires onSpeechEnd only when the unbroken run of
\* sub-threshold frames has lasted at least endSilenceDuration and the
\* activity before that run lasted at least minSpeechDuration.
C1_EndOnlyAfterSilenceAndMinSpeech ==
    vadObs.endRun # -1 =>
        /\ vadObs.endRun >= EndSilenceDuration
        /\ vadObs.endActive >= MinSpeechDuration

\* C2: while useVAD is active, a frame above the threshold cancels the
\* pending silence window: a silenceStartTime that is set is the start of the
\* current unbroken run of sub-threshold frames.
C2_SilenceWindowIsUnbrokenRun ==
    (vad.isSpeechActive /\ vad.silenceStartTime # 0) =>
        vad.silenceStartTime = vadObs.quietSince

\* C3: for every speechConfirmCount, useSpeechInterrupt.detectSpeech fires
\* onSpeechDetected only on a frame that completes a run of speechConfirmCount
\* consecutive speech-like frames.
C3_FiresOnlyAfterConsecutiveRun ==
    siObs.events = <<"onSpeechDetected">> =>
        siObs.speechRun >= si.speechConfirmCount

\* C4: an active useSpeechInterrupt detector becomes inactive only when its
\* confirm counter has been at 0 continuously for at least 500 ms.
C4_DeactivatesOnlyAfterZeroFor500ms ==
    siObs.deactZeroFor # -1 => siObs.deactZeroFor >= SpeechEndSilence

\* C5: onSpeechDetected fires exactly once per activation: a detectSpeech
\* call fires it iff the call takes the detector from inactive to active.
C5_OncePerActivation ==
    siObs.framed => ((siObs.events = <<"onSpeechDetected">>) <=> siObs.edge)

\* a speech-like frame beyond the confirming run, the detector staying active
C5_Witness ==
    /\ siObs.framed
    /\ si.isSpeechActive
    /\ ~siObs.edge
    /\ siObs.speechRun > si.speechConfirmCount

\* C6: the AdaptiveThreshold's threshold lies within
\* [minThreshold, maxThreshold] in every reachable state.
C6_ThresholdWithinBounds ==
    at.minThreshold <= at.threshold /\ at.threshold <= at.maxThreshold

\* C7: calibrate() on fewer than 10 samples changes nothing of the
\* AdaptiveThreshold: threshold, isCalibrated, noiseFloor, stats,
\* lastCalibration and the buffer are as the call found them.
C7_CalibrateTooFewIsNoOp ==
    (atObs.called /\ Len(atObs.pre.noiseSamples) < MinCalibrationSamples) =>
        at = atObs.pre

\* calibrate() has just run on a buffer of 9 samples
C7_Witness ==
    /\ atObs.called
    /\ Len(atObs.pre.noiseSamples) = MinCalibrationSamples - 1
    /\ Len(at.noiseSamples) = MinCalibrationSamples - 1

\* C8: calibrate() on at least 10 buffered samples sets threshold to
\* clamp(mean + stdMultiplier*std + thresholdOffset, minThreshold,
\* maxThreshold) and noiseFloor to mean, empties the buffer, sets
\* isCalibrated and records now as the calibration time.
C8_CalibrateSetsThreshold ==
    (atObs.called /\ Len(atObs.pre.noiseSamples) >= MinCalibrationSamples) =>
        LET pre == atObs.pre
            data == pre.noiseSamples
            n == Len(data)
            total == Sum(data)
            mean == CHOOSE m \in -100..0 : m * n <= total /\ total < (m + 1) * n
            dev == SumSqDiff(data, mean)
            std == CHOOSE d \in 0..100 :
                       d * d * n <= dev /\ dev < (d + 1) * (d + 1) * n
            raw == mean + (pre.stdMultiplier * std) \div 10 + pre.thresholdOffset
            clamped == IF raw < pre.minThreshold THEN pre.minThreshold
                       ELSE IF raw > pre.maxThreshold THEN pre.maxThreshold
                       ELSE raw
        IN  /\ at.threshold = clamped
            /\ at.noiseFloor = mean
            /\ at.noiseSamples = <<>>
            /\ at.isCalibrated
            /\ at.lastCalibration = now

\* calibrate() has just run on a full buffer of unequal samples and set a
\* threshold strictly inside the range
C8_Witness ==
    /\ atObs.called
    /\ Len(atObs.pre.noiseSamples) >= MinCalibrationSamples
    /\ atObs.pre.noiseSamples[1] # atObs.pre.noiseSamples[Len(atObs.pre.noiseSamples)]
    /\ at.minThreshold < at.threshold
    /\ at.threshold < at.maxThreshold

\* C9: stop is idempotent for useVAD, useSpeechInterrupt and useWakeWord: no
\* resource is released more than once, and a stop right after a stop (or
\* with no session ever started) leaves the detector as it was.
C9_StopIdempotent ==
    /\ [](vadObs.relMax <= 1 /\ siObs.relMax <= 1 /\ wwObs.relMax <= 1)
    /\ [][(VADStop /\ (vadObs.stopsInRow >= 1 \/ vad = VADInit))
            => (vad' = vad /\ vadFrames' = vadFrames)]_vars
    /\ [][(SIStopListening
             /\ (\/ siObs.stopsInRow >= 1
                 \/ si = SIInit(si.enableAdaptive, ~si.enableMultiLevel,
                                si.speechConfirmCount)))
            => (si' = si /\ siFrames' = siFrames)]_vars
    /\ [][(WWStop /\ (wwObs.stopsInRow >= 1 \/ ww = WWInit))
            => (ww' = ww /\ wwProcs' = wwProcs)]_vars

\* a second stop in a row of a session whose resources were released once
C9_Witness ==
    \/ unit = "VAD" /\ vadObs.stopsInRow = 2 /\ vadObs.relMax = 1
    \/ unit = "SI" /\ siObs.stopsInRow = 2 /\ siObs.relMax = 1
    \/ unit = "WW" /\ wwObs.stopsInRow = 2 /\ wwObs.relMax = 1

\* C10: between a stop() of a detector and its next start, none of its
\* event callbacks is invoked.
C10_NoCallbackAfterStop ==
    /\ vadObs.stopped => vadObs.events = <<>>
    /\ siObs.stopped => siObs.events = <<>>

\* C11: when stop() is called while a start is awaiting the microphone, then
\* once that start has finished the detector is not listening, no sampling
\* loop is scheduled and the capture handle is released.
C11_StopCancelsPendingStart ==
    (vadObs.stopped /\ vadPending = 0) =>
        /\ ~vad.isListening
        /\ vad.animationId = 0
        /\ vad.microphone = NullH

\* C12: a start whose capture handle cannot be acquired ends with the
\* detector not listening, the audio-graph objects it created released and
\* the error surfaced.
C12_StartFailureIsAtomic ==
    [][/\ (VADStartReject /\ ~vad.isListening /\ vadPending = 1) =>
            /\ ~vad'.isListening
            /\ vad'.audioContext = NullH
            /\ ~vad'.analyser
            /\ vad'.microphone = NullH
       /\ SIStartReject =>
            /\ ~si'.isListening
            /\ si'.error
            /\ si'.audioContext = NullH
            /\ ~si'.analyser
            /\ si'.microphoneStream = NullH
       /\ (WWMediaReject /\ ~ww.isListening) =>
            /\ ~ww'.isListening
            /\ ww'.error
            /\ ww'.webVoiceProcessor = ww.webVoiceProcessor]_vars

C16_OnlyDefinedTransitions ==
    LET path == <<wwObs.from>> \o SelectSeq(wwObs.events,
                    LAMBDA e : e \in {"idle", "waking", "recording", "processing"})
        Defined(a, b) ==
            \/ b = "idle"
            \/ a = "idle" /\ b = "waking"
            \/ a = "waking" /\ b = "recording"
            \/ a = "recording" /\ b = "processing"
    IN  wwObs.op # "none" =>
            \A i \in 1..(Len(path) - 1) : Defined(path[i], path[i + 1])

\* C17: resetResponseState() in any state sets the state to Idle and
\* notifies the observers with 'idle'.
C17_ResetForcesIdle ==
    wwObs.op = "reset" =>
        /\ ww.wakeResponseState = "idle"
        /\ wwObs.events = <<"idle">>

\* resetResponseState() has just run on a recording in progress
C17_Witness ==
    /\ wwObs.op = "reset"
    /\ wwObs.from = "recording"
    /\ ww.wakeResponseState = "idle"

\* C14: when a recording begun by the wake word ends, by the end of its
\* countdown or by a manual stop, the conversation state is Processing.
C14_RecordingEndsInProcessing ==
    viObs.ended # "none" => ww.wakeResponseState = "processing"

\* C15: a recording begun by the wake word emits exactly five countdown
\* values before it ends by itself, whichever of the interval and the
\* timeout runs first at the fifth second.
C15_FiveTicksThenEnd ==
    (viObs.ended = "auto" /\ viObs.sessions = 1 /\ vi.useWakeWordMode) =>
        viObs.ticks = TotalDuration \div 1000

\* C18: while the conversation state is Recording the wake-word listener is
\* not listening, and no second recording is under way.
C18_ListenerSuspendedWhileRecording ==
    /\ ww.wakeResponseState = "recording" => ~ww.isListening
    /\ Cardinality(viTimers.timeouts) + viPending.recording <= 1

\* C19: the VAD mode and the wake-word mode are never both on, and the VAD
\* and the wake-word listener are never both listening.
C19_ModesMutuallyExclusive ==
    /\ ~(vi.useVADMode /\ vi.useWakeWordMode)
    /\ ~(vad.isListening /\ ww.isListening)

C21_AsrErrorForcesIdle ==
    viObs.ended = "error" =>
        /\ ww.wakeResponseState = "idle"
        /\ viTimers.intervals = {}
        /\ viTimers.timeouts = {}

\* C22: a timer of a recording that has been stopped does no work: once the
\* wake-word mode was switched off, which stops the recording, the callback
\* of its timeout changes nothing of the component and the callback of its
\* countdown interval emits no countdown value.
C22_StaleTimerDoesNothing ==
    [][/\ (~vi.useWakeWordMode /\ \E due \in viTimers.timeouts : RecordingTimeout(due))
            => vi' = vi
       /\ (~vi.useWakeWordMode /\ \E t \in viTimers.intervals : CountdownTick(t))
            => viObs'.ticks = viObs.ticks]_vars

\* C23: stopping a detector releases its capture handle: once the VAD has
\* been stopped and is at rest, no stream it got from getUserMedia still has
\* running tracks.
C23_StopReleasesCapture ==
    (vadObs.stopped /\ ~vad.isListening /\ vadPending = 0) => vadObs.openStreams = 0

\* the frames below the energy gate
BelowGate == {data \in SIFrameData : Greater(EnergyThreshold, calculateRMS(data))}

\* C24: a frame below the energy gate that a listening, inactive detector
\* with an AdaptiveThreshold processes is forwarded to addNoiseSample. The
\* frame looked at is the one startListening() processes, right after its
\* reset() has emptied the buffer: forwarded, it is the one sample there.
C24_QuietFramesAreForwarded ==
    [][\A data \in BelowGate :
          (si.enableAdaptive /\ SIStartResolve(data))
          => Len(at'.noiseSamples) = 1]_vars

\* C25: recalibration is triggered once now - lastCalibration >=
\* calibrationInterval: an addNoiseSample() that runs when that much time
\* has passed calls calibrate().
C25_RecalibratesWhenIntervalElapsed ==
    [][\A db \in NextSamples(at) :
          (now - at.lastCalibration >= at.calibrationInterval /\ addNoiseSample(db))
          => atObs'.called]_vars

\* C26: the buffer of noise samples never holds more than 2 x noiseSampleSize
\* samples, and a sample pushed into a full buffer drops the oldest one.
C26_NoiseBufferBounded ==
    /\ [](Len(at.noiseSamples) <= 2 * at.noiseSampleSize)
    /\ [][\A db \in NextSamples(at) :
             (/\ addNoiseSample(db)
              /\ Len(at.noiseSamples) = 2 * at.noiseSampleSize
              /\ ~atObs'.called)
             => at'.noiseSamples = Append(Tail(at.noiseSamples), db)]_vars

\* a sample has just been pushed into a full buffer, which is still full
C26_Witness ==
    /\ atObs.dropped
    /\ ~atObs.called
    /\ Len(at.noiseSamples) = 2 * at.noiseSampleSize
    /\ at.noiseSamples[1] # at.noiseSamples[Len(at.noiseSamples)]

\* C27: after every processed frame the confirm counter lies between 0 and
\* speechConfirmCount; the step of the adaptive branch, which no frame of a
\* started detector reaches, keeps it there from every value in that range.
C27_ConfirmCounterInRange ==
    /\ si.speechConfirmCounter \in 0..si.speechConfirmCount
    /\ \A c \in 0..si.speechConfirmCount, isSpeech \in BOOLEAN, active \in BOOLEAN :
          ConfirmAdaptive([si EXCEPT !.speechConfirmCounter = c,
                                     !.isSpeechActive = active],
                          isSpeech, now).s.speechConfirmCounter
              \in 0..si.speechConfirmCount

\* a frame above the threshold has just been processed by an active detector
\* whose counter was at its ceiling already
C27_Witness ==
    /\ siObs.framed
    /\ si.isListening
    /\ si.isSpeechActive
    /\ siObs.speechRun > si.speechConfirmCount
    /\ si.speechConfirmCounter = si.speechConfirmCount

\* C28: every subscription is fan-out: on each channel all the subscribers
\* that registered are kept, in the order of registration, a later one never
\* taking the place of an earlier one, and each event calls them all in that
\* order.
C28_SubscriptionsFanOut ==
    LET all == [ch \in Channels |-> [i \in 1..subsObs.registered[ch] |-> i]]
    IN  /\ subs = all
        /\ Invoked(subs, vadObs.events) = Invoked(all, vadObs.events)
        /\ Invoked(subs, wwObs.events) = Invoked(all, wwObs.events)

MultiLevelTest(data, threshold) ==
    /\ Greater(calculateRMS(data), EnergyThreshold)
    /\ calculateZeroCrossingRate(data) > ZcrThreshold
    /\ calculateZeroCrossingRate(data) < ZcrCeiling
    /\ Greater(toDecibel(calculateAverage(data)), threshold)
LevelTest(data, threshold) ==
    Greater(toDecibel(calculateAverage(data)), threshold)

\* C30: the speech-like test follows the enableMultiLevel option: given as
\* true, a frame is speech-like iff rms > energyThreshold and zcrThreshold <
\* zcr < 0.5 and db > currentThreshold; given as false, iff db >
\* currentThreshold alone.
C30_TestFollowsMultiLevelOption ==
    \A data \in SIFrameData :
        si.isListening =>
            LET r == DetectSpeech(si, at, data, now)
            IN  r.isSpeech <=>
                    IF siObs.multiLevelOption
                    THEN MultiLevelTest(data, r.s.currentThreshold)
                    ELSE LevelTest(data, r.s.currentThreshold)

\* C31: barge-in: when the interrupt handler has run during playback, the
\* audio in progress is stopped (paused and no longer referenced) by the time
\* the callback of the configuration is called, and that callback is called
\* exactly once.
C31_BargeInStopsAudioThenCallsOnce ==
    ttsObs.op = "interrupt" =>
        /\ ttsPlaying = {}
        /\ tts.audio = 0
        /\ subsObs.registered["onSpeechInterrupt"] > 0 => ttsObs.callbacks = 1

\* C32: when getUserMedia resolves and the audio graph is built,
\* startListening() ends with isListening true, no error and a frame
\* scheduled, with an AdaptiveThreshold and without: the calibrationTimer()
\* it calls returns.
C32_StartListeningEndsListening ==
    [][\A data \in SIFrameData :
          SIStartResolve(data) =>
              /\ si'.isListening
              /\ ~si'.error
              /\ si'.animationFrame \in siFrames']_vars

\* C33: a detector holds at most one capture stream and runs at most one
\* sampling loop at any time, also when start is called again before an
\* earlier start has got the microphone, or while listening.
C33_OneStreamOneLoop ==
    /\ Cardinality(siFrames) <= 1
    /\ Cardinality(vadFrames) <= 1
    /\ vadObs.openStreams <= 1

\* C34: for one VAD instance, over any frames and start/stop calls,
\* onSpeechStart and onSpeechEnd alternate, beginning with onSpeechStart: no
\* two onSpeechStart without an onSpeechEnd between them.
C34_StartAndEndAlternate == vadObs.startsOpen \in {0, 1}

\* C35: at most one countdown interval is live at any time and
\* recordingCountdown stays within 0..5, whatever wake events, stops and timer
\* firings occur; each live interval takes 1 off per second, so the countdown
\* falls by at most 1 per second exactly when at most one is live.
C35_OneCountdownWithinRange ==
    /\ Cardinality(viTimers.intervals) <= 1
    /\ vi.recordingCountdown \in 0..(TotalDuration \div 1000)

\* C36: switching wake-word mode off while a recording begun by the wake word
\* is in progress ends that session completely: the conversation state is
\* idle again, no countdown interval is left and the component is not
\* listening; the state is never left at recording with the mode off.
C36_ToggleOffEndsSession ==
    [][(vi.useWakeWordMode /\ ww.wakeResponseState = "recording"
            /\ toggleWakeWordMode) =>
           /\ ww'.wakeResponseState = "idle"
           /\ viTimers'.intervals = {}
           /\ ~vi'.isListening]_vars

\* C37: the speechDetected flag mirrors the activity of the detector: after
\* every processed frame it is true iff isSpeechActive is, so it is false
\* again once the detector has deactivated.
C37_SpeechDetectedMirrorsActivity ==
    (siObs.framed /\ si.isListening) => (si.speechDetected <=> si.isSpeechActive)

\* C38: at most one synthesized audio sounds at any time and stop() can
\* silence it: whatever the order in which overlapping speak() calls get
\* their answers, every audio that was started has finished or is the one
\* this.audio refers to.
C38_OnlyTheReferencedAudioSounds ==
    /\ Cardinality(ttsPlaying) <= 1
    /\ \A id \in ttsPlaying : tts.audio = id

\* C39: once sendMessage has got the reply or an error of a message, and has
\* called stopWaitAudio and clearWaitTimer, no confirm or waiting audio of
\* that message is sounding or starts to sound, also when the fetch of
\* playWaitAudio was in flight at that moment.
C39_NoWaitAudioAfterReply ==
    \A m \in chat.settled :
        /\ <<m, "confirm">> \notin chat.sounding
        /\ <<m, "waiting">> \notin chat.sounding
====
